---- MODULE Spec2Model ----
(***************************************************************************)
(* luaR: the tokenizer (Lexer) and the recursive-descent parser (Parser)   *)
(* of a Lua-syntax subset, as state machines.                              *)
(*                                                                         *)
(* Go strings that are token text (Token.Literal, Identifier.Name, ...)    *)
(* are sequences of one-character strings; token kinds and diagnostics are *)
(* TLA+ strings.  The source text is a sequence of ASCII characters, so a  *)
(* rune is one byte and utf8.DecodeRuneInString always returns size 1.     *)
(***************************************************************************)
EXTENDS Integers, Sequences, FiniteSets, TLC

VARIABLES
    input,      \* Lexer.input
    lx,         \* Lexer.pos, line, column, lineStart
    toks,       \* the slice Lexer.Tokens is building
    lexState,   \* "scan" while Tokens loops, "done" once it has returned
    tokens,     \* Parser.tokens
    pos,        \* Parser.pos
    errors,     \* Parser.errors
    stack,      \* the call stack of the parse functions, innermost last
    ret,        \* the value the last returning parse function returned
    program,    \* Program.Statements of the Program Parse builds
    perr,       \* the error Parse returned (Null for nil)
    parseState, \* "idle", "run", "done" (Parse returned), "panic" (aborted)
    original,   \* the struct value given to Marshal (Null when there is none)
    decoded,    \* the destination given to Decode, before and after the call
    err,        \* the error Unmarshal returned (Null for nil)
    codecState  \* where Marshal and Unmarshal stand; "idle" when not called

lexVars == <<input, lx, toks, lexState>>
parseVars == <<tokens, pos, errors, stack, ret, program, perr, parseState>>
codecVars == <<original, decoded, err, codecState>>
vars == <<input, lx, toks, lexState, tokens, pos, errors, stack, ret, program,
          perr, parseState, original, decoded, err, codecState>>

\* A nil pointer, nil interface or nil error.
Null == [kind |-> "<nil>"]

\* Neither Marshal nor Unmarshal is called.
CodecIdle ==
    /\ original = Null
    /\ decoded = Null
    /\ err = Null
    /\ codecState = "idle"

(***************************************************************************)
(* Token kinds                                                             *)
(***************************************************************************)
ILLEGAL == "ILLEGAL"
EOF == "EOF"
IDENT == "IDENT"
INT == "INT"
FLOAT == "FLOAT"
STRING_ == "STRING"
COMMA == ","
DOT == "."
COLON == ":"
SEMICOLON == ";"
LPAREN == "("
RPAREN == ")"
LBRACKET == "["
RBRACKET == "]"
LBRACE == "{"
RBRACE == "}"
ASSIGN == "="
EQ == "=="
NE == "~="
LT == "<"
LE == "<="
GT == ">"
GE == ">="
PLUS == "+"
MINUS == "-"
STAR == "*"
SLASH == "/"
MOD == "%"
POW == "^"
HASH == "#"
CONCAT == ".."
ELLIPSIS == "..."
LSHIFT == "<<"
RSHIFT == ">>"
LABEL == "::"
AND == "and"
OR == "or"
NOT == "not"
IF_ == "if"
THEN_ == "then"
ELSE_ == "else"
DO == "do"
ELSEIF == "elseif"
END == "end"
FOR == "for"
IN_ == "in"
WHILE == "while"
REPEAT == "repeat"
UNTIL == "until"
FUNCTION == "function"
RETURN == "return"
LOCAL_ == "local"
BREAK == "break"
GOTO == "goto"
TRUE_ == "true"
FALSE_ == "false"
NIL == "nil"

\* The keys of the keywords map; every key maps to the kind spelled like it.
keywords ==
    [k \in {"and", "or", "not", "if", "then", "else", "elseif", "end", "for",
            "in", "while", "repeat", "until", "function", "return", "local",
            "break", "goto", "true", "false", "nil", "do"} |-> k]

Token(type, literal, line, column) ==
    [Type |-> type, Literal |-> literal, Line |-> line, Column |-> column]

(***************************************************************************)
(* Characters                                                              *)
(***************************************************************************)
NUL == "NUL"          \* rune 0: what currentChar returns at end of input
NL == "\n"
TAB == "\t"
CR == "\r"
SP == " "
DQUOTE == "\""
SQUOTE == "'"
BACKSLASH == "\\"

IsDigit(ch) == ch \in {"0", "1", "2", "3", "4", "5", "6", "7", "8", "9"}
IsLetter(ch) ==
    ch \in {"a", "b", "c", "d", "e", "f", "g", "h", "i", "j", "k", "l", "m",
            "n", "o", "p", "q", "r", "s", "t", "u", "v", "w", "x", "y", "z",
            "A", "B", "C", "D", "E", "F", "G", "H", "I", "J", "K", "L", "M",
            "N", "O", "P", "Q", "R", "S", "T", "U", "V", "W", "X", "Y", "Z"}
IsHexLetter(ch) ==
    ch \in {"a", "b", "c", "d", "e", "f", "A", "B", "C", "D", "E", "F"}

\* The characters of a sequence joined into one TLA+ string.
RECURSIVE JoinChars(_)
JoinChars(s) == IF s = <<>> THEN "" ELSE s[1] \o JoinChars(Tail(s))

DigitChar(d) == <<"0", "1", "2", "3", "4", "5", "6", "7", "8", "9">>[d + 1]

\* fmt's %d of a non-negative integer, as characters.
RECURSIVE Itoa(_)
Itoa(n) ==
    IF n < 10 THEN <<DigitChar(n)>>
    ELSE Itoa(n \div 10) \o <<DigitChar(n % 10)>>

(***************************************************************************)
(* Lexer.  A lexer state L is [pos, line, column, lineStart]; Lexer.start  *)
(* is never assigned and stays 0.                                          *)
(***************************************************************************)
NewLexer == [pos |-> 0, line |-> 1, column |-> 1, lineStart |-> 0]

currentChar(in, L) == IF L.pos >= Len(in) THEN NUL ELSE in[L.pos + 1]

peekChar(in, L) == IF L.pos + 1 >= Len(in) THEN NUL ELSE in[L.pos + 2]

\* The lexer state after readChar; the rune it returns is currentChar(in, L).
readChar(in, L) ==
    IF L.pos >= Len(in) THEN L
    ELSE IF in[L.pos + 1] = NL
         THEN [pos |-> L.pos + 1, line |-> L.line + 1, column |-> 1,
               lineStart |-> L.pos + 1]
         ELSE [L EXCEPT !.pos = L.pos + 1, !.column = L.column + 1]

RECURSIVE skipWhitespace(_, _)
skipWhitespace(in, L) ==
    IF currentChar(in, L) \in {SP, TAB, CR, NL}
    THEN skipWhitespace(in, readChar(in, L))
    ELSE L

RECURSIVE skipToLineEnd(_, _)
skipToLineEnd(in, L) ==
    IF currentChar(in, L) \in {NL, NUL} THEN L
    ELSE skipToLineEnd(in, readChar(in, L))

skipComment(in, L) ==
    IF currentChar(in, L) = "-" /\ peekChar(in, L) = "-"
    THEN skipToLineEnd(in, readChar(in, readChar(in, L)))
    ELSE L

\* "line %d, column %d: " followed by the message, as errorf formats it.
errorf(L, msg) ==
    <<"l", "i", "n", "e", " ">> \o Itoa(L.line) \o
    <<",", " ", "c", "o", "l", "u", "m", "n", " ">> \o Itoa(L.column - 0) \o
    <<":", " ">> \o msg

unterminatedString ==
    <<"u", "n", "t", "e", "r", "m", "i", "n", "a", "t", "e", "d", " ",
      "s", "t", "r", "i", "n", "g">>

\* The escape switch with only its default arm.
escaped_defaultOnly(ch) == ch

\* The character an escape sequence \ch stands for.
escaped(ch) ==
    CASE ch = "n" -> NL
      [] ch = "t" -> TAB
      [] ch = "r" -> CR
      [] ch = "0" -> NUL
      [] OTHER -> ch

\* The loop of readString, after the opening quote has been read.
RECURSIVE readStringLoop(_, _, _, _)
readStringLoop(in, L, quote, sb) ==
    LET ch == currentChar(in, L)
        L1 == readChar(in, L)
    IN  IF ch = NUL
        THEN [Type |-> ILLEGAL, Literal |-> errorf(L1, unterminatedString),
              L |-> L1]
        ELSE IF ch = quote
        THEN [Type |-> STRING_, Literal |-> sb, L |-> L1]
        ELSE IF ch = BACKSLASH
        THEN readStringLoop(in, readChar(in, L1), quote,
                            Append(sb, escaped(currentChar(in, L1))))
        ELSE readStringLoop(in, L1, quote, Append(sb, ch))

readString(in, L) ==
    readStringLoop(in, readChar(in, L), currentChar(in, L), <<>>)

RECURSIVE readHexDigits(_, _)
readHexDigits(in, L) ==
    IF IsDigit(currentChar(in, L)) \/ IsHexLetter(currentChar(in, L))
    THEN readHexDigits(in, readChar(in, L))
    ELSE L

\* The second loop of readNumber; yields the lexer state and the two flags.
RECURSIVE readNumberLoop(_, _, _, _)
readNumberLoop(in, L, hasDot, hasExp) ==
    LET ch == currentChar(in, L)
        L1 == readChar(in, L)
        stop == [L |-> L, hasDot |-> hasDot, hasExp |-> hasExp]
    IN  IF ch = "."
        THEN IF hasDot \/ hasExp THEN stop
             ELSE readNumberLoop(in, L1, TRUE, hasExp)
        ELSE IF ch \in {"e", "E"}
        THEN IF hasExp THEN stop
             ELSE readNumberLoop(
                      in,
                      IF currentChar(in, L1) \in {"+", "-"}
                      THEN readChar(in, L1) ELSE L1,
                      hasDot, TRUE)
        ELSE IF IsDigit(ch) THEN readNumberLoop(in, L1, hasDot, hasExp)
        ELSE stop

\* readNumber without its hexadecimal branch.
readNumber_decimalOnly(in, L) ==
    LET r == readNumberLoop(in, L, FALSE, FALSE)
    IN  [Type |-> IF r.hasDot \/ r.hasExp THEN FLOAT ELSE INT,
         Literal |-> SubSeq(in, L.pos + 1, r.L.pos),
         L |-> r.L]

readNumber(in, L) ==
    LET start == L.pos
        L1 == IF currentChar(in, L) = "0" THEN readChar(in, L) ELSE L
    IN  IF currentChar(in, L) = "0" /\ currentChar(in, L1) \in {"x", "X"}
        THEN LET L2 == readHexDigits(in, readChar(in, L1))
             IN  [Type |-> INT, Literal |-> SubSeq(in, start + 1, L2.pos),
                  L |-> L2]
        ELSE LET r == readNumberLoop(in, L1, FALSE, FALSE)
             IN  [Type |-> IF r.hasDot \/ r.hasExp THEN FLOAT ELSE INT,
                  Literal |-> SubSeq(in, start + 1, r.L.pos),
                  L |-> r.L]

RECURSIVE readIdentifierLoop(_, _)
readIdentifierLoop(in, L) ==
    IF IsLetter(currentChar(in, L)) \/ IsDigit(currentChar(in, L))
       \/ currentChar(in, L) = "_"
    THEN readIdentifierLoop(in, readChar(in, L))
    ELSE L

\* readIdentifier forgetting to consume what it returns.
readIdentifier_noAdvance(in, L) == [Literal |-> <<in[L.pos + 1]>>, L |-> L]

readIdentifier(in, L) ==
    LET L1 == readIdentifierLoop(in, L)
    IN  [Literal |-> SubSeq(in, L.pos + 1, L1.pos), L |-> L1]

\* The text of a punctuation or operator token of the given kind.
spelling(kind) ==
    CASE kind = EQ -> <<"=", "=">>
      [] kind = NE -> <<"~", "=">>
      [] kind = LE -> <<"<", "=">>
      [] kind = GE -> <<">", "=">>
      [] kind = LSHIFT -> <<"<", "<">>
      [] kind = RSHIFT -> <<">", ">">>
      [] kind = LABEL -> <<":", ":">>
      [] kind = CONCAT -> <<".", ".">>
      [] kind = ELLIPSIS -> <<".", ".", ".">>
      [] kind = ILLEGAL -> <<"~">>
      [] OTHER -> <<kind>>

\* oneOrTwo without the look at the next character.
oneOrTwo_noLookahead(in, L1, second, two, one, startCol) ==
    [tok |-> Token(one, spelling(one), L1.line, startCol), L |-> L1]

\* A token whose kind depends on the next character: kind two when `second`
\* follows (and is read), kind one otherwise.
oneOrTwo(in, L1, second, two, one, startCol) ==
    IF currentChar(in, L1) = second
    THEN LET L2 == readChar(in, L1)
         IN  [tok |-> Token(two, spelling(two), L2.line, startCol), L |-> L2]
    ELSE [tok |-> Token(one, spelling(one), L1.line, startCol), L |-> L1]

singleCharKinds ==
    {"+", "*", "/", "%", "^", "#", "(", ")", "{", "}", "[", "]", ",", ";"}

\* NextToken: the token returned and the lexer state it leaves.
RECURSIVE NextToken(_, _)
NextToken(in, L0) ==
    LET L == skipWhitespace(in, skipComment(in, skipWhitespace(in, L0)))
        startCol == L.column
        ch == currentChar(in, L)
        L1 == readChar(in, L)
    IN  IF ch = NUL THEN [tok |-> Token(EOF, <<>>, L.line, startCol), L |-> L]
        ELSE IF ch = "=" THEN oneOrTwo(in, L1, "=", EQ, ASSIGN, startCol)
        ELSE IF ch \in singleCharKinds
        THEN [tok |-> Token(ch, <<ch>>, L1.line, startCol), L |-> L1]
        ELSE IF ch = "-"
        THEN IF currentChar(in, L1) = "-"
             THEN NextToken(in, skipComment(in, L1))
             ELSE [tok |-> Token(MINUS, <<"-">>, L1.line, startCol), L |-> L1]
        ELSE IF ch = "."
        THEN IF currentChar(in, L1) = "."
             THEN oneOrTwo(in, readChar(in, L1), ".", ELLIPSIS, CONCAT,
                           startCol)
             ELSE [tok |-> Token(DOT, <<".">>, L1.line, startCol), L |-> L1]
        ELSE IF ch = ":" THEN oneOrTwo(in, L1, ":", LABEL, COLON, startCol)
        ELSE IF ch \in {DQUOTE, SQUOTE}
        THEN LET r == readString(in, L)
             IN  [tok |-> Token(r.Type, r.Literal, r.L.line, startCol),
                  L |-> r.L]
        ELSE IF ch = "~" THEN oneOrTwo(in, L1, "=", NE, ILLEGAL, startCol)
        ELSE IF ch = "<"
        THEN IF currentChar(in, L1) = "<"
             THEN oneOrTwo(in, L1, "<", LSHIFT, LT, startCol)
             ELSE oneOrTwo(in, L1, "=", LE, LT, startCol)
        ELSE IF ch = ">"
        THEN IF currentChar(in, L1) = ">"
             THEN oneOrTwo(in, L1, ">", RSHIFT, GT, startCol)
             ELSE oneOrTwo(in, L1, "=", GE, GT, startCol)
        ELSE IF IsDigit(ch)
        THEN LET r == readNumber(in, L)
             IN  [tok |-> Token(r.Type, r.Literal, r.L.line, startCol),
                  L |-> r.L]
        ELSE IF IsLetter(ch) \/ ch = "_"
        THEN LET r == readIdentifier(in, L)
                 ident == JoinChars(r.Literal)
             IN  [tok |-> Token(IF ident \in DOMAIN keywords
                                THEN keywords[ident] ELSE IDENT,
                                r.Literal, r.L.line, startCol),
                  L |-> r.L]
        ELSE [tok |-> Token(ILLEGAL, <<ch>>, L1.line, startCol), L |-> L1]

\* Lexer.Tokens run to completion: the loop as a function of the input.
RECURSIVE TokensFrom(_, _, _)
TokensFrom(in, L, acc) ==
    LET r == NextToken(in, L)
    IN  IF r.tok.Type = EOF THEN Append(acc, r.tok)
        ELSE TokensFrom(in, r.L, Append(acc, r.tok))

TokensOf(in) == TokensFrom(in, NewLexer, <<>>)

(***************************************************************************)
(* Bounds of the lexer's inputs                                            *)
(***************************************************************************)
MaxSrcLen == 5

LexAlphabet == {"-", NL, SP, "x", "1", "=", DQUOTE}

RECURSIVE SeqsUpTo(_, _)
SeqsUpTo(S, n) ==
    IF n = 0 THEN {<<>>}
    ELSE LET shorter == SeqsUpTo(S, n - 1)
         IN  shorter \cup {Append(s, c) : s \in shorter, c \in S}

LexInputs == SeqsUpTo(LexAlphabet, MaxSrcLen)

(***************************************************************************)
(* The lexer as a state machine: one step is one iteration of the loop of  *)
(* Lexer.Tokens.                                                           *)
(***************************************************************************)
ParserIdle ==
    /\ tokens = <<>>
    /\ pos = 0
    /\ errors = <<>>
    /\ stack = <<>>
    /\ ret = Null
    /\ program = <<>>
    /\ perr = Null
    /\ parseState = "idle"

LexInit ==
    /\ input \in LexInputs
    /\ lx = NewLexer
    /\ toks = <<>>
    /\ lexState = "scan"
    /\ ParserIdle
    /\ CodecIdle

Tokens ==
    /\ lexState = "scan"
    /\ LET r == NextToken(input, lx)
       IN  /\ toks' = Append(toks, r.tok)
           /\ lx' = r.L
           /\ lexState' = IF r.tok.Type = EOF THEN "done" ELSE "scan"
    /\ UNCHANGED <<input, parseVars, codecVars>>

LexNext == Tokens

LexSpec == LexInit /\ [][LexNext]_vars

(***************************************************************************)
(* Syntax tree.  The TokenLine field is named as in the source; a nil      *)
(* slice and an empty slice are both the empty sequence.                   *)
(***************************************************************************)
Identifier(name, line) ==
    [kind |-> "Identifier", Name |-> name, TokenLine |-> line]
NumberLiteral(value, intValue, isInt, line) ==
    [kind |-> "NumberLiteral", Value |-> value, IntValue |-> intValue,
     IsInt |-> isInt, TokenLine |-> line]
StringLiteral(value, line) ==
    [kind |-> "StringLiteral", Value |-> value, TokenLine |-> line]
BooleanLiteral(value, line) ==
    [kind |-> "BooleanLiteral", Value |-> value, TokenLine |-> line]
NilLiteral(line) == [kind |-> "NilLiteral", TokenLine |-> line]
TableLiteral(fields, line) ==
    [kind |-> "TableLiteral", Fields |-> fields, TokenLine |-> line]
TableField(key, value, line) ==
    [kind |-> "TableField", Key |-> key, Value |-> value, TokenLine |-> line]
FunctionLiteral(parameters, body, line) ==
    [kind |-> "FunctionLiteral", Parameters |-> parameters, Body |-> body,
     TokenLine |-> line]
BinaryExpression(operator, left, right, line) ==
    [kind |-> "BinaryExpression", Operator |-> operator, Left |-> left,
     Right |-> right, TokenLine |-> line]
UnaryExpression(operator, right, line) ==
    [kind |-> "UnaryExpression", Operator |-> operator, Right |-> right,
     TokenLine |-> line]
IndexExpression(object, index, line) ==
    [kind |-> "IndexExpression", Object |-> object, Index |-> index,
     TokenLine |-> line]
MemberExpression(object, member, line) ==
    [kind |-> "MemberExpression", Object |-> object, Member |-> member,
     TokenLine |-> line]
FunctionCall_methodDropped(function, arguments, method, line) ==
    [kind |-> "FunctionCall", Function |-> function, Arguments |-> arguments,
     Method |-> <<>>, TokenLine |-> line]
FunctionCall(function, arguments, method, line) ==
    [kind |-> "FunctionCall", Function |-> function, Arguments |-> arguments,
     Method |-> method, TokenLine |-> line]
ErrorNode(message, line) ==
    [kind |-> "ErrorNode", Message |-> message, TokenLine |-> line]

AssignmentStatement(names, values, line) ==
    [kind |-> "AssignmentStatement", Names |-> names, Values |-> values,
     TokenLine |-> line]
LocalAssignmentStatement(names, values, line) ==
    [kind |-> "LocalAssignmentStatement", Names |-> names, Values |-> values,
     TokenLine |-> line]
FunctionCallStatement(function) ==
    [kind |-> "FunctionCallStatement", Function |-> function]
IfStatement(condition, then, elseIfs, else, line) ==
    [kind |-> "IfStatement", Condition |-> condition, Then |-> then,
     ElseIfs |-> elseIfs, Else |-> else, TokenLine |-> line]
ElseIfClause(condition, then, line) ==
    [kind |-> "ElseIfClause", Condition |-> condition, Then |-> then,
     TokenLine |-> line]
WhileStatement(condition, body, line) ==
    [kind |-> "WhileStatement", Condition |-> condition, Body |-> body,
     TokenLine |-> line]
RepeatStatement(body, condition, line) ==
    [kind |-> "RepeatStatement", Body |-> body, Condition |-> condition,
     TokenLine |-> line]
ForStatement(init, condition, post, body, line) ==
    [kind |-> "ForStatement", Init |-> init, Condition |-> condition,
     Post |-> post, Body |-> body, TokenLine |-> line]
ForInStatement(names, values, body, line) ==
    [kind |-> "ForInStatement", Names |-> names, Values |-> values,
     Body |-> body, TokenLine |-> line]
FunctionStatement(name, parameters, body, line) ==
    [kind |-> "FunctionStatement", Name |-> name, Parameters |-> parameters,
     Body |-> body, TokenLine |-> line]
LocalFunctionStatement(name, parameters, body, line) ==
    [kind |-> "LocalFunctionStatement", Name |-> name,
     Parameters |-> parameters, Body |-> body, TokenLine |-> line]
ReturnStatement(results, line) ==
    [kind |-> "ReturnStatement", Results |-> results, TokenLine |-> line]
BreakStatement(line) == [kind |-> "BreakStatement", TokenLine |-> line]
LabelStatement(name, line) ==
    [kind |-> "LabelStatement", Name |-> name, TokenLine |-> line]
GotoStatement(name, line) ==
    [kind |-> "GotoStatement", Name |-> name, TokenLine |-> line]
SemicolonStatement(line) == [kind |-> "SemicolonStatement", TokenLine |-> line]
\* Table is never set by the parser and stays nil.
FunctionName(method, name) ==
    [kind |-> "FunctionName", Method |-> method, Table |-> Null, Name |-> name]

(***************************************************************************)
(* strconv.ParseInt(s, 0, 64) and strconv.ParseFloat(s, 64) on the texts   *)
(* readNumber can produce.  With the error discarded, the value of a       *)
(* malformed text is 0.  The texts of the model are short: none is out of  *)
(* the range of int64.  A float is the decimal it denotes, [m |->          *)
(* mantissa, e |-> exponent of ten] with no trailing zero in m; binary     *)
(* rounding is not modelled.                                               *)
(***************************************************************************)
DigitValue(ch) ==
    CASE ch = "0" -> 0 [] ch = "1" -> 1 [] ch = "2" -> 2 [] ch = "3" -> 3
      [] ch = "4" -> 4 [] ch = "5" -> 5 [] ch = "6" -> 6 [] ch = "7" -> 7
      [] ch = "8" -> 8 [] ch = "9" -> 9
      [] ch \in {"a", "A"} -> 10 [] ch \in {"b", "B"} -> 11
      [] ch \in {"c", "C"} -> 12 [] ch \in {"d", "D"} -> 13
      [] ch \in {"e", "E"} -> 14 [] ch \in {"f", "F"} -> 15
      [] OTHER -> 99

\* The digits of s read in the given base; -1 when s holds a character that
\* is no digit of the base.
RECURSIVE digitsIn(_, _, _)
digitsIn(s, base, acc) ==
    IF s = <<>> THEN acc
    ELSE IF DigitValue(s[1]) >= base THEN -1
    ELSE digitsIn(Tail(s), base, acc * base + DigitValue(s[1]))

ParseInt(s) ==
    LET hex == Len(s) >= 2 /\ s[1] = "0" /\ s[2] \in {"x", "X"}
        oct == ~hex /\ Len(s) >= 2 /\ s[1] = "0"
        body == IF hex THEN SubSeq(s, 3, Len(s))
                ELSE IF oct THEN Tail(s) ELSE s
        v == IF body = <<>> THEN -1
             ELSE digitsIn(body, IF hex THEN 16 ELSE IF oct THEN 8 ELSE 10, 0)
    IN  IF v < 0 THEN 0 ELSE v

FloatZero == [m |-> 0, e |-> 0]

RECURSIVE normFloat(_, _)
normFloat(m, e) ==
    IF m = 0 THEN FloatZero
    ELSE IF m % 10 = 0 THEN normFloat(m \div 10, e + 1)
    ELSE [m |-> m, e |-> e]

\* The index of the first character of s at or after i that is in S, or
\* Len(s) + 1.
RECURSIVE indexOf(_, _, _)
indexOf(s, S, i) ==
    IF i > Len(s) \/ s[i] \in S THEN i ELSE indexOf(s, S, i + 1)

ParseFloat(s) ==
    LET ePos == indexOf(s, {"e", "E"}, 1)
        mant == SubSeq(s, 1, ePos - 1)
        dot == indexOf(mant, {"."}, 1)
        whole == SubSeq(mant, 1, dot - 1)
        frac == SubSeq(mant, dot + 1, Len(mant))
        expo == SubSeq(s, ePos + 1, Len(s))
        neg == expo # <<>> /\ expo[1] = "-"
        expDigits == IF expo # <<>> /\ expo[1] \in {"+", "-"}
                     THEN Tail(expo) ELSE expo
        m == digitsIn(whole \o frac, 10, 0)
        x == IF ePos > Len(s) THEN 0 ELSE digitsIn(expDigits, 10, 0)
    IN  IF whole \o frac = <<>> \/ m < 0 \/ x < 0
           \/ (ePos <= Len(s) /\ expDigits = <<>>)
        THEN FloatZero
        ELSE normFloat(m, (IF neg THEN 0 - x ELSE x) - Len(frac))

(***************************************************************************)
(* Parser: the cursor.  A cursor c is [pos, errors], the two fields of the *)
(* Parser that parsing changes; tokens never changes.                      *)
(***************************************************************************)
MaxErrors == 12

Cur == [pos |-> pos, errors |-> errors]

currentToken(c) ==
    IF c.pos >= Len(tokens) THEN tokens[Len(tokens)] ELSE tokens[c.pos + 1]

peekToken_current(c, offset) == currentToken(c)

peekToken(c, offset) ==
    IF c.pos + offset >= Len(tokens) THEN tokens[Len(tokens)]
    ELSE tokens[c.pos + offset + 1]

\* advance without its test for the end of the tokens.
advance_pastEnd(c) == [c EXCEPT !.pos = c.pos + 1]

\* The cursor after advance; the token advance returns is currentToken(c).
advance(c) == IF c.pos >= Len(tokens) THEN c ELSE [c EXCEPT !.pos = c.pos + 1]

check(c, t) == currentToken(c).Type = t

\* append(p.errors, msg).  The list is cut at MaxErrors entries: a parse that
\* returns never has that many (see ErrorsFit), a parse that loops has no end
\* of them.
appendError(c, msg) ==
    IF Len(c.errors) >= MaxErrors THEN c
    ELSE [c EXCEPT !.errors = Append(c.errors, msg)]

expectedMessage(t, tok) ==
    "expected " \o t \o " but got " \o tok.Type \o " at line "
        \o ToString(tok.Line)

unexpectedMessage(tok) ==
    "unexpected token: " \o tok.Type \o " at line " \o ToString(tok.Line)

\* The zero Token but for its Type.
placeholder(t) == Token(t, <<>>, 0, 0)

\* expect without its diagnostic.
expect_noDiagnostic(c, t) ==
    IF currentToken(c).Type = t
    THEN [tok |-> currentToken(c), c |-> advance(c)]
    ELSE [tok |-> placeholder(t), c |-> c]

\* expect: the token it returns and the cursor it leaves.
expect(c, t) ==
    IF currentToken(c).Type = t
    THEN [tok |-> currentToken(c), c |-> advance(c)]
    ELSE [tok |-> placeholder(t),
          c |-> appendError(c, expectedMessage(t, currentToken(c)))]

\* match: what it returns and the cursor it leaves.
match(c, t) ==
    IF check(c, t) THEN [ok |-> TRUE, c |-> advance(c)]
    ELSE [ok |-> FALSE, c |-> c]

RECURSIVE joinLines(_)
joinLines(msgs) ==
    IF Len(msgs) = 0 THEN ""
    ELSE IF Len(msgs) = 1 THEN msgs[1]
    ELSE msgs[1] \o "\n" \o joinLines(Tail(msgs))

errorsAsString(errs) == joinLines(errs)

(***************************************************************************)
(* Parser: the call stack.  A frame is [fn, pc, loc]: the parse function,  *)
(* the place in it where it goes on when its callee returns, its locals.   *)
(* A step runs the innermost function from where it stands to its next     *)
(* call of a parse function, to the head of one of its loops or to its     *)
(* return.  A function that ends in `return p.parseX()` hands its frame    *)
(* over to parseX.                                                         *)
(***************************************************************************)
Frame(fn) == [fn |-> fn, pc |-> "start", loc |-> Null]

Top == stack[Len(stack)]

At(fn) == parseState = "run" /\ stack # <<>> /\ Top.fn = fn

\* The stack with the innermost frame standing at pc with locals loc.
Resume(pc, loc) ==
    [stack EXCEPT ![Len(stack)] = [fn |-> Top.fn, pc |-> pc, loc |-> loc]]

\* What a step does to the stack and to ret.
CallTo(callee, pc, loc) ==
    [stack |-> Append(Resume(pc, loc), Frame(callee)), ret |-> ret]
GoTo(pc, loc) == [stack |-> Resume(pc, loc), ret |-> ret]
HandOver(callee) ==
    [stack |-> [stack EXCEPT ![Len(stack)] = Frame(callee)], ret |-> ret]
\* A slice as a parse function returns it.
Slice(items) == [kind |-> "slice", items |-> items]

Return(value) == [stack |-> SubSeq(stack, 1, Len(stack) - 1), ret |-> value]

\* A step: the cursor it leaves and what it does to the stack.
Step(c, k) ==
    /\ pos' = c.pos
    /\ errors' = c.errors
    /\ stack' = k.stack
    /\ ret' = k.ret
    /\ UNCHANGED <<tokens, program, perr, parseState, lexVars, codecVars>>

(***************************************************************************)
(* Parser: expressions                                                     *)
(***************************************************************************)
parseExpression ==
    /\ At("parseExpression")
    /\ Step(Cur, HandOver("parseOr"))

\* The head of the loop of a level of left-associative binary operators, with
\* the operand parsed so far: on one of ops it reads the operator and parses
\* the right operand with `operand`, otherwise the level returns.
binaryLoop(left, ops, operand) ==
    IF currentToken(Cur).Type \in ops
    THEN Step(advance(Cur),
              CallTo(operand, "right",
                     [left |-> left, op |-> currentToken(Cur)]))
    ELSE Step(Cur, Return(left))

\* left := first(); for one of ops { op := advance(); right := operand();
\* left = &BinaryExpression{op.Type, left, right, op.Line} }; return left
binaryLevel(ops, first, operand) ==
    CASE Top.pc = "start" -> Step(Cur, CallTo(first, "left", Null))
      [] Top.pc = "left" -> binaryLoop(ret, ops, operand)
      [] Top.pc = "right" ->
             binaryLoop(BinaryExpression(Top.loc.op.Type, Top.loc.left, ret,
                                         Top.loc.op.Line),
                        ops, operand)

orOps == {OR}
andOps == {AND}
comparisonOps_noGE == {EQ, NE, LT, LE, GT}
comparisonOps == {EQ, NE, LT, LE, GT, GE}
bitwiseOrOps == {OR, LSHIFT, RSHIFT}
bitwiseXorOps == {POW}
bitwiseAndOps == {HASH, AND}
addSubOps == {PLUS, MINUS}
mulDivModOps == {STAR, SLASH, MOD}
unaryOps == {NOT, MINUS, HASH}

parseOr ==
    /\ At("parseOr")
    /\ binaryLevel(orOps, "parseAnd", "parseAnd")

parseAnd ==
    /\ At("parseAnd")
    /\ binaryLevel(andOps, "parseComparison", "parseComparison")

parseComparison ==
    /\ At("parseComparison")
    /\ binaryLevel(comparisonOps, "parseConcat", "parseConcat")

RECURSIVE foldConcat_right(_, _, _)
foldConcat_right(result, ops, rights) ==
    IF rights = <<>> THEN result
    ELSE BinaryExpression(ops[1].Type, result,
                          foldConcat_right(rights[1], Tail(ops), Tail(rights)),
                          ops[1].Line)

\* result := left; for i, right := range rights { result = &BinaryExpression{
\* ops[i].Type, result, right, ops[i].Line} }
RECURSIVE foldConcat(_, _, _)
foldConcat(result, ops, rights) ==
    IF rights = <<>> THEN result
    ELSE foldConcat(BinaryExpression(ops[1].Type, result, rights[1],
                                     ops[1].Line),
                    Tail(ops), Tail(rights))

parseConcat ==
    /\ At("parseConcat")
    /\ LET more(left, ops, rights) ==
               IF check(Cur, CONCAT)
               THEN Step(advance(Cur),
                         CallTo("parseBitwiseOr", "right",
                                [left |-> left,
                                 ops |-> Append(ops, currentToken(Cur)),
                                 rights |-> rights]))
               ELSE Step(Cur, Return(foldConcat(left, ops, rights)))
       IN  CASE Top.pc = "start" ->
                    Step(Cur, CallTo("parseBitwiseOr", "left", Null))
             [] Top.pc = "left" -> more(ret, <<>>, <<>>)
             [] Top.pc = "right" ->
                    more(Top.loc.left, Top.loc.ops, Append(Top.loc.rights, ret))

parseBitwiseOr ==
    /\ At("parseBitwiseOr")
    /\ binaryLevel(bitwiseOrOps, "parseBitwiseXor", "parseBitwiseXor")

parseBitwiseXor ==
    /\ At("parseBitwiseXor")
    /\ binaryLevel(bitwiseXorOps, "parseBitwiseAnd", "parseBitwiseAnd")

parseBitwiseAnd ==
    /\ At("parseBitwiseAnd")
    /\ binaryLevel(bitwiseAndOps, "parseAddSub", "parseAddSub")

parseAddSub ==
    /\ At("parseAddSub")
    /\ binaryLevel(addSubOps, "parseMulDivMod", "parseMulDivMod")

parseMulDivMod ==
    /\ At("parseMulDivMod")
    /\ binaryLevel(mulDivModOps, "parseUnary", "parseUnary")

parseUnary ==
    /\ At("parseUnary")
    /\ CASE Top.pc = "start" ->
                IF currentToken(Cur).Type \in unaryOps
                THEN Step(advance(Cur),
                          CallTo("parseUnary", "right",
                                 [op |-> currentToken(Cur)]))
                ELSE Step(Cur, HandOver("parsePow"))
         [] Top.pc = "right" ->
                Step(Cur, Return(UnaryExpression(Top.loc.op.Type, ret,
                                                 Top.loc.op.Line)))

powOperand_parsePostfix == "parsePostfix"

\* What parses the right operand of "^".
powOperand == "parseUnary"

powOps == {POW}

parsePow ==
    /\ At("parsePow")
    /\ binaryLevel(powOps, "parsePostfix", powOperand)

parsePostfix ==
    /\ At("parsePostfix")
    /\ LET \* the head of the loop, with the expression built so far
           loop(expr) ==
               IF check(Cur, DOT)
               THEN LET m == expect(advance(Cur), IDENT)
                    IN  Step(m.c,
                             GoTo("loop",
                                  [expr |-> MemberExpression(
                                                expr, m.tok.Literal,
                                                currentToken(m.c).Line)]))
               ELSE IF check(Cur, LBRACKET)
               THEN Step(advance(Cur),
                         CallTo("parseExpression", "index", [expr |-> expr]))
               ELSE IF check(Cur, COLON)
               THEN LET m == expect(advance(Cur), IDENT)
                        c1 == expect(m.c, LPAREN).c
                        c2 == expect(c1, RPAREN).c
                    IN  IF ~check(c1, RPAREN)
                        THEN Step(c1,
                                  CallTo("parseExpressionList", "args",
                                         [expr |-> expr,
                                          method |-> m.tok.Literal]))
                        ELSE Step(c2,
                                  GoTo("loop",
                                       [expr |-> FunctionCall(
                                                     expr, <<>>, m.tok.Literal,
                                                     currentToken(c2).Line)]))
               ELSE IF check(Cur, LPAREN)
               THEN LET c1 == advance(Cur)
                        c2 == expect(c1, RPAREN).c
                    IN  IF ~check(c1, RPAREN)
                        THEN Step(c1,
                                  CallTo("parseExpressionList", "args",
                                         [expr |-> expr, method |-> <<>>]))
                        ELSE Step(c2,
                                  GoTo("loop",
                                       [expr |-> FunctionCall(
                                                     expr, <<>>, <<>>,
                                                     currentToken(c2).Line)]))
               ELSE IF check(Cur, STRING_) \/ check(Cur, LBRACE)
               THEN Step(Cur,
                         CallTo("parseExpressionList", "sugar",
                                [expr |-> expr]))
               ELSE Step(Cur, Return(expr))
       IN  CASE Top.pc = "start" ->
                    Step(Cur, CallTo("parsePrimary", "primary", Null))
             [] Top.pc = "primary" -> loop(ret)
             [] Top.pc = "loop" -> loop(Top.loc.expr)
             [] Top.pc = "index" ->
                    LET c1 == expect(Cur, RBRACKET).c
                    IN  Step(c1,
                             GoTo("loop",
                                  [expr |-> IndexExpression(
                                                Top.loc.expr, ret,
                                                currentToken(c1).Line)]))
             [] Top.pc = "args" ->
                    LET c1 == expect(Cur, RPAREN).c
                    IN  Step(c1,
                             GoTo("loop",
                                  [expr |-> FunctionCall(
                                                Top.loc.expr, ret.items,
                                                Top.loc.method,
                                                currentToken(c1).Line)]))
             [] Top.pc = "sugar" ->
                    Step(Cur,
                         GoTo("loop",
                              [expr |-> FunctionCall(Top.loc.expr, ret.items, <<>>,
                                                     currentToken(Cur).Line)]))

unexpectedToken_noAdvance(c) ==
    LET c1 == appendError(c, unexpectedMessage(currentToken(c)))
    IN  [c |-> c1,
         node |-> ErrorNode("unexpected token", currentToken(c1).Line)]

\* The default arm of parsePrimary: the diagnostic, the advance, the ErrorNode.
unexpectedToken(c) ==
    LET c1 == advance(appendError(c, unexpectedMessage(currentToken(c))))
    IN  [c |-> c1,
         node |-> ErrorNode("unexpected token", currentToken(c1).Line)]

parsePrimary ==
    /\ At("parsePrimary")
    /\ LET tok == currentToken(Cur)
           next == advance(Cur)
       IN  CASE Top.pc = "start" ->
                    IF tok.Type = IDENT
                    THEN Step(next, Return(Identifier(tok.Literal, tok.Line)))
                    ELSE IF tok.Type = INT
                    THEN Step(next,
                              Return(NumberLiteral(FloatZero,
                                                   ParseInt(tok.Literal), TRUE,
                                                   tok.Line)))
                    ELSE IF tok.Type = FLOAT
                    THEN Step(next,
                              Return(NumberLiteral(ParseFloat(tok.Literal), 0,
                                                   FALSE, tok.Line)))
                    ELSE IF tok.Type = STRING_
                    THEN Step(next,
                              Return(StringLiteral(tok.Literal, tok.Line)))
                    ELSE IF tok.Type \in {TRUE_, FALSE_}
                    THEN Step(next,
                              Return(BooleanLiteral(tok.Type = TRUE_,
                                                    currentToken(next).Line)))
                    ELSE IF tok.Type = NIL
                    THEN Step(next, Return(NilLiteral(currentToken(next).Line)))
                    ELSE IF tok.Type = LBRACE
                    THEN Step(Cur, HandOver("parseTableLiteral"))
                    ELSE IF tok.Type = FUNCTION
                    THEN Step(Cur, HandOver("parseFunctionLiteral"))
                    ELSE IF tok.Type = LPAREN
                    THEN Step(next, CallTo("parseExpression", "paren", Null))
                    ELSE LET u == unexpectedToken(Cur)
                         IN  Step(u.c, Return(u.node))
             [] Top.pc = "paren" ->
                    Step(expect(Cur, RPAREN).c, Return(ret))

appendField_prepend(fields, field) ==
    IF Len(fields) >= Len(tokens) THEN fields ELSE <<field>> \o fields

\* append(fields, field).  The list is cut at Len(tokens) entries: every field
\* of a table the parser finishes starts at a token of its own, and a loop
\* that reads fields without end adds nothing new.
appendField(fields, field) ==
    IF Len(fields) >= Len(tokens) THEN fields ELSE Append(fields, field)

parseTableLiteral ==
    /\ At("parseTableLiteral")
    /\ CASE Top.pc = "start" ->
                LET b == expect(Cur, LBRACE)
                IN  IF ~check(b.c, RBRACE)
                    THEN Step(b.c,
                              CallTo("parseTableField", "field",
                                     [braceToken |-> b.tok, fields |-> <<>>]))
                    ELSE Step(expect(b.c, RBRACE).c,
                              Return(TableLiteral(<<>>, b.tok.Line)))
         [] Top.pc = "field" ->
                LET fields == IF ret # Null
                              THEN appendField(Top.loc.fields, ret)
                              ELSE Top.loc.fields
                IN  IF check(Cur, RBRACE)
                    THEN Step(expect(Cur, RBRACE).c,
                              Return(TableLiteral(fields,
                                                  Top.loc.braceToken.Line)))
                    ELSE Step(expect(Cur, COMMA).c,
                              CallTo("parseTableField", "field",
                                     [braceToken |-> Top.loc.braceToken,
                                      fields |-> fields]))

parseTableField ==
    /\ At("parseTableField")
    /\ CASE Top.pc = "start" ->
                Step(Cur, CallTo("parseExpression", "key", Null))
         [] Top.pc = "key" ->
                IF check(Cur, ASSIGN)
                THEN Step(advance(Cur),
                          CallTo("parseExpression", "value", [key |-> ret]))
                ELSE Step(Cur,
                          Return(TableField(Null, ret, currentToken(Cur).Line)))
         [] Top.pc = "value" ->
                Step(Cur,
                     Return(TableField(Top.loc.key, ret,
                                       currentToken(Cur).Line)))

parseExpressionList ==
    /\ At("parseExpressionList")
    /\ LET more(exprs) ==
               IF check(Cur, COMMA)
               THEN Step(advance(Cur),
                         CallTo("parseExpression", "expr", [exprs |-> exprs]))
               ELSE Step(Cur, Return(Slice(exprs)))
       IN  CASE Top.pc = "start" ->
                    Step(Cur,
                         CallTo("parseExpression", "expr", [exprs |-> <<>>]))
             [] Top.pc = "expr" -> more(Append(Top.loc.exprs, ret))

(***************************************************************************)
(* Parser: statements                                                      *)
(***************************************************************************)
HandOverWith(callee, loc) ==
    [stack |-> [stack EXCEPT ![Len(stack)] =
                    [fn |-> callee, pc |-> "start", loc |-> loc]],
     ret |-> ret]

blockEnd == {END, ELSE_, ELSEIF, UNTIL, EOF}

parseStatement ==
    /\ At("parseStatement")
    /\ LET t == currentToken(Cur).Type
           next == advance(Cur)
       IN  IF t = IF_ THEN Step(Cur, HandOver("parseIfStatement"))
           ELSE IF t = WHILE THEN Step(Cur, HandOver("parseWhileStatement"))
           ELSE IF t = REPEAT THEN Step(Cur, HandOver("parseRepeatStatement"))
           ELSE IF t = FOR THEN Step(Cur, HandOver("parseForStatement"))
           ELSE IF t = FUNCTION
           THEN Step(Cur, HandOver("parseFunctionStatement"))
           ELSE IF t = LOCAL_ THEN Step(Cur, HandOver("parseLocalStatement"))
           ELSE IF t = RETURN THEN Step(Cur, HandOver("parseReturnStatement"))
           ELSE IF t = BREAK
           THEN Step(next, Return(BreakStatement(currentToken(next).Line)))
           ELSE IF t = GOTO THEN Step(Cur, HandOver("parseGotoStatement"))
           ELSE IF t = LABEL THEN Step(Cur, HandOver("parseLabelStatement"))
           ELSE IF t = SEMICOLON
           THEN Step(next, Return(SemicolonStatement(currentToken(next).Line)))
           ELSE Step(Cur, HandOver("parseAssignmentOrExpression"))

parseIfStatement ==
    /\ At("parseIfStatement")
    /\ LET \* after the then block and after each elseif clause
           rest(loc) ==
               IF check(Cur, ELSEIF)
               THEN Step(advance(Cur),
                         CallTo("parseExpression", "elseIfCond", loc))
               ELSE IF check(Cur, ELSE_)
               THEN Step(advance(Cur), CallTo("parseBlock", "else", loc))
               ELSE Step(expect(Cur, END).c,
                         Return(IfStatement(loc.condition, loc.thenBlock,
                                            loc.elseIfs, <<>>,
                                            loc.ifToken.Line)))
       IN  CASE Top.pc = "start" ->
                    LET i == expect(Cur, IF_)
                    IN  Step(i.c,
                             CallTo("parseExpression", "condition",
                                    [ifToken |-> i.tok]))
             [] Top.pc = "condition" ->
                    Step(expect(Cur, THEN_).c,
                         CallTo("parseBlock", "then",
                                [ifToken |-> Top.loc.ifToken,
                                 condition |-> ret]))
             [] Top.pc = "then" ->
                    rest([ifToken |-> Top.loc.ifToken,
                          condition |-> Top.loc.condition,
                          thenBlock |-> ret.items, elseIfs |-> <<>>,
                          elseIfCond |-> Null])
             [] Top.pc = "elseIfCond" ->
                    Step(expect(Cur, THEN_).c,
                         CallTo("parseBlock", "elseIfBlock",
                                [Top.loc EXCEPT !.elseIfCond = ret]))
             [] Top.pc = "elseIfBlock" ->
                    rest([Top.loc EXCEPT
                              !.elseIfs =
                                  Append(@, ElseIfClause(
                                                Top.loc.elseIfCond, ret.items,
                                                currentToken(Cur).Line))])
             [] Top.pc = "else" ->
                    Step(expect(Cur, END).c,
                         Return(IfStatement(Top.loc.condition,
                                            Top.loc.thenBlock, Top.loc.elseIfs,
                                            ret.items, Top.loc.ifToken.Line)))

parseWhileStatement ==
    /\ At("parseWhileStatement")
    /\ CASE Top.pc = "start" ->
                LET w == expect(Cur, WHILE)
                IN  Step(w.c,
                         CallTo("parseExpression", "condition",
                                [whileToken |-> w.tok]))
         [] Top.pc = "condition" ->
                Step(expect(Cur, DO).c,
                     CallTo("parseBlock", "body",
                            [whileToken |-> Top.loc.whileToken,
                             condition |-> ret]))
         [] Top.pc = "body" ->
                Step(expect(Cur, END).c,
                     Return(WhileStatement(Top.loc.condition, ret.items,
                                           Top.loc.whileToken.Line)))

parseRepeatStatement ==
    /\ At("parseRepeatStatement")
    /\ CASE Top.pc = "start" ->
                LET r == expect(Cur, REPEAT)
                IN  Step(r.c,
                         CallTo("parseBlock", "body", [repeatToken |-> r.tok]))
         [] Top.pc = "body" ->
                Step(expect(Cur, UNTIL).c,
                     CallTo("parseExpression", "condition",
                            [repeatToken |-> Top.loc.repeatToken,
                             body |-> ret.items]))
         [] Top.pc = "condition" ->
                Step(Cur,
                     Return(RepeatStatement(Top.loc.body, ret,
                                            Top.loc.repeatToken.Line)))

parseForStatement ==
    /\ At("parseForStatement")
    /\ LET \* for ... in: after each value
           moreValues(loc) ==
               IF check(Cur, COMMA)
               THEN Step(advance(Cur), CallTo("parseExpression", "value", loc))
               ELSE Step(expect(Cur, DO).c, CallTo("parseBlock", "inBody", loc))
       IN  CASE Top.pc = "start" ->
                    LET f == expect(Cur, FOR)
                    IN  IF peekToken(f.c, 1).Type = ASSIGN
                        THEN LET n == expect(f.c, IDENT)
                             IN  Step(expect(n.c, ASSIGN).c,
                                      CallTo("parseExpression", "initVal",
                                             [forToken |-> f.tok,
                                              name |-> Identifier(
                                                           n.tok.Literal,
                                                           f.tok.Line)]))
                        ELSE LET n == expect(f.c, IDENT)
                                 first == <<Identifier(n.tok.Literal,
                                                       n.tok.Line)>>
                                 m == expect(advance(n.c), IDENT)
                                 two == check(n.c, COMMA)
                                 c1 == IF two THEN m.c ELSE n.c
                             IN  Step(expect(c1, IN_).c,
                                      CallTo("parseExpression", "value",
                                             [forToken |-> f.tok,
                                              names |->
                                                  IF two
                                                  THEN Append(
                                                           first,
                                                           Identifier(
                                                               m.tok.Literal,
                                                               currentToken(
                                                                   m.c).Line))
                                                  ELSE first,
                                              values |-> <<>>]))
             [] Top.pc = "initVal" ->
                    Step(expect(Cur, COMMA).c,
                         CallTo("parseExpression", "endVal",
                                [forToken |-> Top.loc.forToken,
                                 name |-> Top.loc.name, initVal |-> ret]))
             [] Top.pc = "endVal" ->
                    LET loc == [forToken |-> Top.loc.forToken,
                                name |-> Top.loc.name,
                                initVal |-> Top.loc.initVal, endVal |-> ret,
                                step |-> Null, stepTokenLine |-> 0]
                    IN  IF check(Cur, COMMA)
                        THEN Step(advance(Cur),
                                  CallTo("parseExpression", "step", loc))
                        ELSE Step(expect(Cur, DO).c,
                                  CallTo("parseBlock", "body", loc))
             [] Top.pc = "step" ->
                    Step(expect(Cur, DO).c,
                         CallTo("parseBlock", "body",
                                [Top.loc EXCEPT
                                     !.step = ret,
                                     !.stepTokenLine = currentToken(Cur).Line]))
             [] Top.pc = "body" ->
                    Step(expect(Cur, END).c,
                         Return(ForStatement(
                                    AssignmentStatement(
                                        <<Top.loc.name>>, <<Top.loc.initVal>>,
                                        Top.loc.forToken.Line),
                                    Top.loc.endVal,
                                    AssignmentStatement(
                                        <<Top.loc.name>>, <<Top.loc.step>>,
                                        Top.loc.stepTokenLine),
                                    ret.items, Top.loc.forToken.Line)))
             [] Top.pc = "value" ->
                    moreValues([Top.loc EXCEPT !.values = Append(@, ret)])
             [] Top.pc = "inBody" ->
                    Step(expect(Cur, END).c,
                         Return(ForInStatement(Top.loc.names, Top.loc.values,
                                               ret.items, Top.loc.forToken.Line)))

\* The parameter list between "(" and ")", written out three times in the
\* source (parseFunctionStatement, parseLocalFunction, parseFunctionLiteral):
\* the parameters and the cursor left.
\* One turn of the loop that reads a parameter list: the cursor and the
\* parameters it leaves, and whether the loop goes on.
parameterTurn(c, parameters) ==
    LET e == expect(c, IDENT)
        r == IF check(c, IDENT)
             THEN [c |-> e.c,
                   ps |-> Append(parameters,
                                 Identifier(e.tok.Literal,
                                            currentToken(e.c).Line))]
             ELSE IF check(c, ELLIPSIS)
             THEN [c |-> advance(c),
                   ps |-> Append(parameters,
                                 Identifier(<<".", ".", ".">>,
                                            currentToken(c).Line))]
             ELSE [c |-> c, ps |-> parameters]
    IN  [c |-> IF check(r.c, COMMA) THEN advance(r.c) ELSE r.c,
         parameters |-> r.ps,
         again |-> check(r.c, COMMA)]

\* From behind the "(" of a parameter list, loc holding the empty list.
parameterList(c, loc) ==
    IF ~check(c, RPAREN) THEN Step(c, GoTo("params", loc))
    ELSE Step(expect(c, RPAREN).c, CallTo("parseBlock", "body", loc))

\* The head of the loop of a parameter list; behind the list comes the body.
parameterLoop ==
    LET t == parameterTurn(Cur, Top.loc.parameters)
        loc == [Top.loc EXCEPT !.parameters = t.parameters]
    IN  IF t.again THEN Step(t.c, GoTo("params", loc))
        ELSE Step(expect(t.c, RPAREN).c, CallTo("parseBlock", "body", loc))

parseFunctionName ==
    /\ At("parseFunctionName")
    /\ LET e == expect(Cur, IDENT)
           hasName == check(Cur, IDENT)
           name1 == IF hasName
                    THEN Identifier(e.tok.Literal, currentToken(e.c).Line)
                    ELSE Null
           c1 == IF hasName THEN e.c ELSE Cur
           hasDot == check(c1, DOT)
           d == expect(advance(c1), IDENT)
           base == IF name1 = Null THEN Identifier(<<>>, 0) ELSE name1
           name2 == IF hasDot
                    THEN [base EXCEPT !.Name = @ \o <<".">> \o d.tok.Literal]
                    ELSE name1
           c2 == IF hasDot THEN d.c ELSE c1
           hasColon == check(c2, COLON)
           m == expect(advance(c2), IDENT)
       IN  Step(IF hasColon THEN m.c ELSE c2,
                Return(FunctionName(IF hasColon THEN m.tok.Literal ELSE <<>>,
                                    name2)))

parseFunctionStatement ==
    /\ At("parseFunctionStatement")
    /\ CASE Top.pc = "start" ->
                LET f == expect(Cur, FUNCTION)
                IN  Step(f.c,
                         CallTo("parseFunctionName", "name",
                                [funcToken |-> f.tok]))
         [] Top.pc = "name" ->
                parameterList(expect(Cur, LPAREN).c,
                              [funcToken |-> Top.loc.funcToken, name |-> ret,
                               parameters |-> <<>>])
         [] Top.pc = "params" -> parameterLoop
         [] Top.pc = "body" ->
                Step(expect(Cur, END).c,
                     Return(FunctionStatement(Top.loc.name,
                                              Top.loc.parameters, ret.items,
                                              Top.loc.funcToken.Line)))

parseLocalStatement ==
    /\ At("parseLocalStatement")
    /\ LET l == expect(Cur, LOCAL_)
       IN  IF check(l.c, FUNCTION)
           THEN Step(l.c,
                     HandOverWith("parseLocalFunction",
                                  [localToken |-> l.tok]))
           ELSE Step(l.c,
                     HandOverWith("parseLocalAssignment",
                                  [localToken |-> l.tok]))

parseLocalFunction ==
    /\ At("parseLocalFunction")
    /\ CASE Top.pc = "start" ->
                LET n == expect(expect(Cur, FUNCTION).c, IDENT)
                IN  parameterList(expect(n.c, LPAREN).c,
                                  [localToken |-> Top.loc.localToken,
                                   name |-> Identifier(
                                                n.tok.Literal,
                                                Top.loc.localToken.Line),
                                   parameters |-> <<>>])
         [] Top.pc = "params" -> parameterLoop
         [] Top.pc = "body" ->
                Step(expect(Cur, END).c,
                     Return(LocalFunctionStatement(
                                Top.loc.name, Top.loc.parameters, ret.items,
                                Top.loc.localToken.Line)))

parseLocalAssignment ==
    /\ At("parseLocalAssignment")
    /\ LET \* the head of the loop that reads the names
           loop(names) ==
               LET e == expect(Cur, IDENT)
                   r == IF check(Cur, IDENT)
                        THEN [c |-> e.c,
                              names |-> Append(names,
                                               Identifier(
                                                   e.tok.Literal,
                                                   currentToken(e.c).Line))]
                        ELSE [c |-> Cur, names |-> names]
                   loc == [localToken |-> Top.loc.localToken,
                           names |-> r.names]
               IN  IF check(r.c, COMMA)
                   THEN Step(advance(r.c), GoTo("names", loc))
                   ELSE IF check(r.c, ASSIGN)
                   THEN Step(advance(r.c),
                             CallTo("parseExpressionList", "values", loc))
                   ELSE Step(r.c,
                             Return(LocalAssignmentStatement(
                                        r.names, <<>>,
                                        Top.loc.localToken.Line)))
       IN  CASE Top.pc = "start" -> loop(<<>>)
             [] Top.pc = "names" -> loop(Top.loc.names)
             [] Top.pc = "values" ->
                    Step(Cur,
                         Return(LocalAssignmentStatement(
                                    Top.loc.names, ret.items,
                                    Top.loc.localToken.Line)))

parseReturnStatement ==
    /\ At("parseReturnStatement")
    /\ LET finish(c, results, line) ==
               Step(IF check(c, SEMICOLON) THEN advance(c) ELSE c,
                    Return(ReturnStatement(results, line)))
       IN  CASE Top.pc = "start" ->
                    LET r == expect(Cur, RETURN)
                    IN  IF currentToken(r.c).Type \notin blockEnd
                        THEN Step(r.c,
                                  CallTo("parseExpressionList", "results",
                                         [returnToken |-> r.tok]))
                        ELSE finish(r.c, <<>>, r.tok.Line)
             [] Top.pc = "results" ->
                    finish(Cur, ret.items, Top.loc.returnToken.Line)

parseGotoStatement ==
    /\ At("parseGotoStatement")
    /\ LET g == expect(Cur, GOTO)
           n == expect(g.c, IDENT)
       IN  Step(n.c, Return(GotoStatement(n.tok.Literal, g.tok.Line)))

parseLabelStatement ==
    /\ At("parseLabelStatement")
    /\ LET l == expect(Cur, LABEL)
           n == expect(l.c, IDENT)
       IN  Step(expect(n.c, LABEL).c,
                Return(LabelStatement(n.tok.Literal, l.tok.Line)))

\* member.Object.(*Identifier): the assertion holds.
isIdentifier(expr) == expr.kind = "Identifier"

\* The name of a member target that forgets the object.
memberName_memberOnly(member) == member.Member

\* member.Object.(*Identifier).Name + "." + member.Member
memberName(member) == member.Object.Name \o <<".">> \o member.Member

\* nameStr: the name of the object of an index target when the object is an
\* identifier, the zero string otherwise.
indexName(index) ==
    IF index.Object.kind = "Identifier" THEN index.Object.Name ELSE <<>>

parseAssignmentOrExpression ==
    /\ At("parseAssignmentOrExpression")
    /\ LET \* what follows the `if p.check(ASSIGN)` block
           plain(c, expr) ==
               IF expr.kind = "FunctionCall"
               THEN Step(c, Return(FunctionCallStatement(expr)))
               ELSE Step(c,
                         Return(AssignmentStatement(<<>>, <<expr>>,
                                                    currentToken(c).Line)))
           assignment(names) ==
               Step(Cur,
                    Return(AssignmentStatement(names, ret.items,
                                               currentToken(Cur).Line)))
       IN  CASE Top.pc = "start" ->
                    Step(Cur, CallTo("parseExpression", "expr", Null))
             [] Top.pc = "expr" ->
                    IF check(Cur, ASSIGN)
                    THEN IF ret.kind \in {"Identifier", "MemberExpression",
                                          "IndexExpression"}
                         THEN Step(advance(Cur),
                                   CallTo("parseExpressionList", "values",
                                          [expr |-> ret]))
                         ELSE plain(advance(Cur), ret)
                    ELSE plain(Cur, ret)
             [] Top.pc = "values" ->
                    IF Top.loc.expr.kind = "Identifier"
                    THEN assignment(<<Top.loc.expr>>)
                    ELSE IF Top.loc.expr.kind = "MemberExpression"
                    THEN IF isIdentifier(Top.loc.expr.Object)
                         THEN assignment(
                                  <<Identifier(memberName(Top.loc.expr), 0)>>)
                         ELSE \* the type assertion panics
                              /\ parseState' = "panic"
                              /\ UNCHANGED <<tokens, pos, errors, stack, ret,
                                             program, perr, lexVars, codecVars>>
                    ELSE assignment(
                             <<Identifier(indexName(Top.loc.expr), 0)>>)

parseBlock ==
    /\ At("parseBlock")
    /\ LET loop(statements) ==
               IF currentToken(Cur).Type \in blockEnd
               THEN Step(Cur, Return(Slice(statements)))
               ELSE Step(Cur,
                         CallTo("parseStatement", "stmt",
                                [statements |-> statements]))
       IN  CASE Top.pc = "start" -> loop(<<>>)
             [] Top.pc = "stmt" ->
                    loop(IF ret # Null THEN Append(Top.loc.statements, ret)
                         ELSE Top.loc.statements)

parseFunctionLiteral ==
    /\ At("parseFunctionLiteral")
    /\ CASE Top.pc = "start" ->
                LET f == expect(Cur, FUNCTION)
                IN  parameterList(expect(f.c, LPAREN).c,
                                  [funcToken |-> f.tok, parameters |-> <<>>])
         [] Top.pc = "params" -> parameterLoop
         [] Top.pc = "body" ->
                Step(expect(Cur, END).c,
                     Return(FunctionLiteral(Top.loc.parameters, ret.items,
                                            Top.loc.funcToken.Line)))

\* fmt.Errorf("%s", text)
Errorf(text) == [kind |-> "error", text |-> text]

hasErrors_moreThanOne(errs) == Len(errs) > 1

\* len(p.errors) > 0
hasErrors(errs) == Len(errs) > 0

\* Parse: the loop over the statements, then the return.
Parse ==
    /\ At("Parse")
    /\ LET statements ==
               IF Top.pc = "stmt" /\ ret # Null THEN Append(program, ret)
               ELSE program
       IN  /\ program' = statements
           /\ IF ~check(Cur, EOF)
              THEN /\ stack' = Append(Resume("stmt", Null),
                                      Frame("parseStatement"))
                   /\ UNCHANGED <<perr, parseState>>
              ELSE /\ stack' = <<>>
                   /\ perr' = IF hasErrors(errors)
                              THEN Errorf(errorsAsString(errors))
                              ELSE Null
                   /\ parseState' = "done"
    /\ UNCHANGED <<tokens, pos, errors, ret, lexVars, codecVars>>

(***************************************************************************)
(* The parser's inputs.  A source is written from the kinds of its tokens, *)
(* one token to a line: the k-th identifier is spelled with the k-th       *)
(* letter, the k-th number with the digit k.  NewParser lexes it.          *)
(***************************************************************************)
MaxLen == 3
MaxChain == 2

CoreAlphabet ==
    {IDENT, INT, ASSIGN, DOT, COMMA, LBRACE, RBRACE, LPAREN, RPAREN, ILLEGAL}

CoreInputs == SeqsUpTo(CoreAlphabet, MaxLen)

\* The binary operators of the chains: every level of the expression grammar,
\* and every relational operator.
ChainOps ==
    {OR, AND, EQ, NE, LT, LE, GT, GE, CONCAT, LSHIFT, POW, HASH, PLUS, MINUS,
     STAR}

\* operand (op operand)^n
RECURSIVE Chains(_)
Chains(n) ==
    IF n = 0 THEN {<<IDENT>>}
    ELSE {c \o <<op, IDENT>> : c \in Chains(n - 1), op \in ChainOps}

\* x = operand op operand ... with at most MaxChain operators
ChainInputs ==
    UNION {{<<IDENT, ASSIGN>> \o c : c \in Chains(n)} : n \in 0..MaxChain}

\* x = a r1 b l c r2 d, such as x = a == b and c == d
LogicInputs ==
    {<<IDENT, ASSIGN, IDENT, r1, IDENT, l, IDENT, r2, IDENT>> :
        r1 \in comparisonOps, l \in {AND, OR}, r2 \in {EQ, LT}}

SampleInputs ==
    { \* x = 1 < 2 <= 3
      <<IDENT, ASSIGN, INT, LT, INT, LE, INT>>,
      \* x = -a ^ b, x = a ^ -b, x = a ^ b ^ c ^ d
      <<IDENT, ASSIGN, MINUS, IDENT, POW, IDENT>>,
      <<IDENT, ASSIGN, IDENT, POW, MINUS, IDENT>>,
      <<IDENT, ASSIGN, IDENT, POW, IDENT, POW, IDENT, POW, IDENT>>,
      \* x = "a" .. "b" .. "c" .. "d"
      <<IDENT, ASSIGN, STRING_, CONCAT, STRING_, CONCAT, STRING_, CONCAT,
        STRING_>>,
      \* x = not true, x = #t, x = 1.5, x = nil, x = false
      <<IDENT, ASSIGN, NOT, TRUE_>>,
      <<IDENT, ASSIGN, HASH, IDENT>>,
      <<IDENT, ASSIGN, FLOAT>>,
      <<IDENT, ASSIGN, NIL>>,
      <<IDENT, ASSIGN, FALSE_>>,
      \* x = a / b % c >> d
      <<IDENT, ASSIGN, IDENT, SLASH, IDENT, MOD, IDENT, RSHIFT, IDENT>>,
      \* x = (1 + 2) * 3
      <<IDENT, ASSIGN, LPAREN, INT, PLUS, INT, RPAREN, STAR, INT>>,
      \* a.b.c = 1, f().x = 1, (a.b).c = 1, a.b = 1, t[k] = 1, f()[k] = 1
      <<IDENT, DOT, IDENT, DOT, IDENT, ASSIGN, INT>>,
      <<IDENT, LPAREN, RPAREN, DOT, IDENT, ASSIGN, INT>>,
      <<LPAREN, IDENT, DOT, IDENT, RPAREN, DOT, IDENT, ASSIGN, INT>>,
      <<IDENT, DOT, IDENT, ASSIGN, INT>>,
      <<IDENT, LBRACKET, IDENT, RBRACKET, ASSIGN, INT>>,
      <<IDENT, LPAREN, RPAREN, LBRACKET, IDENT, RBRACKET, ASSIGN, INT>>,
      \* a.b = c, t[1] = 2, t["s1"] = k, a.b[k] = 1, t[1][2] = 3
      <<IDENT, DOT, IDENT, ASSIGN, IDENT>>,
      <<IDENT, LBRACKET, INT, RBRACKET, ASSIGN, INT>>,
      <<IDENT, LBRACKET, STRING_, RBRACKET, ASSIGN, IDENT>>,
      <<IDENT, DOT, IDENT, LBRACKET, IDENT, RBRACKET, ASSIGN, INT>>,
      <<IDENT, LBRACKET, INT, RBRACKET, LBRACKET, INT, RBRACKET, ASSIGN,
        INT>>,
      \* x = {1, 2, 3}, x = {name = "test", count = 5}, x = {1 2}
      <<IDENT, ASSIGN, LBRACE, INT, COMMA, INT, COMMA, INT, RBRACE>>,
      <<IDENT, ASSIGN, LBRACE, IDENT, ASSIGN, STRING_, COMMA, IDENT, ASSIGN,
        INT, RBRACE>>,
      <<IDENT, ASSIGN, LBRACE, INT, INT, RBRACE>>,
      \* obj:method(arg1, arg2), obj:method(), f "s", f {}
      <<IDENT, COLON, IDENT, LPAREN, IDENT, COMMA, IDENT, RPAREN>>,
      <<IDENT, COLON, IDENT, LPAREN, RPAREN>>,
      <<IDENT, STRING_>>,
      <<IDENT, LBRACE, RBRACE>>,
      \* a = 1 b = 2 c = 3
      <<IDENT, ASSIGN, INT, IDENT, ASSIGN, INT, IDENT, ASSIGN, INT>>,
      \* if a then b = 1 elseif c then d = 2 else e = 3 end
      <<IF_, IDENT, THEN_, IDENT, ASSIGN, INT, ELSEIF, IDENT, THEN_, IDENT,
        ASSIGN, INT, ELSE_, IDENT, ASSIGN, INT, END>>,
      \* if a then end, if a then (cut off)
      <<IF_, IDENT, THEN_, END>>,
      <<IF_, IDENT, THEN_>>,
      \* while a do b = 1 end, repeat a = 1 until b
      <<WHILE, IDENT, DO, IDENT, ASSIGN, INT, END>>,
      <<REPEAT, IDENT, ASSIGN, INT, UNTIL, IDENT>>,
      \* for i = 1, 10, 2 do x = i end; for i = 1, 10 do end
      <<FOR, IDENT, ASSIGN, INT, COMMA, INT, COMMA, INT, DO, IDENT, ASSIGN,
        IDENT, END>>,
      <<FOR, IDENT, ASSIGN, INT, COMMA, INT, DO, END>>,
      \* for k, v in pairs(t) do end; for k in a, b do end
      <<FOR, IDENT, COMMA, IDENT, IN_, IDENT, LPAREN, IDENT, RPAREN, DO, END>>,
      <<FOR, IDENT, IN_, IDENT, COMMA, IDENT, DO, END>>,
      \* function t.m:f(a, ...) return a, 1; end
      <<FUNCTION, IDENT, DOT, IDENT, COLON, IDENT, LPAREN, IDENT, COMMA,
        ELLIPSIS, RPAREN, RETURN, IDENT, COMMA, INT, SEMICOLON, END>>,
      \* function f() return end, function f(a (cut off), function (
      <<FUNCTION, IDENT, LPAREN, RPAREN, RETURN, END>>,
      <<FUNCTION, IDENT, LPAREN, IDENT>>,
      <<FUNCTION, LPAREN>>,
      \* local function f(a) end, local a, b = 1, 2, local a
      <<LOCAL_, FUNCTION, IDENT, LPAREN, IDENT, RPAREN, END>>,
      <<LOCAL_, IDENT, COMMA, IDENT, ASSIGN, INT, COMMA, INT>>,
      <<LOCAL_, IDENT>>,
      \* x = function(a) return a end, f(function() end
      <<IDENT, ASSIGN, FUNCTION, LPAREN, IDENT, RPAREN, RETURN, IDENT, END>>,
      <<IDENT, LPAREN, FUNCTION, LPAREN, RPAREN, END>>,
      \* break ; goto done ::done::
      <<BREAK, SEMICOLON, GOTO, IDENT, LABEL, IDENT, LABEL>>,
      \* f(a, (cut off), f(a b), x = {a = (cut off)
      <<IDENT, LPAREN, IDENT, COMMA>>,
      <<IDENT, LPAREN, IDENT, IDENT, RPAREN>>,
      <<IDENT, ASSIGN, LBRACE, IDENT, ASSIGN>>,
      \* 1 = 2, "s" = 1, f() = 1, a + b = 1, -a = 1
      <<INT, ASSIGN, INT>>,
      <<STRING_, ASSIGN, INT>>,
      <<IDENT, LPAREN, RPAREN, ASSIGN, INT>>,
      <<IDENT, PLUS, IDENT, ASSIGN, INT>>,
      <<MINUS, IDENT, ASSIGN, INT>>,
      \* a = 1, 2; a, b = 1; a, b = 1, 2; a, b, c = 1, 2, 3
      <<IDENT, ASSIGN, INT, COMMA, INT>>,
      <<IDENT, COMMA, IDENT, ASSIGN, INT>>,
      <<IDENT, COMMA, IDENT, ASSIGN, INT, COMMA, INT>>,
      <<IDENT, COMMA, IDENT, COMMA, IDENT, ASSIGN, INT, COMMA, INT, COMMA,
        INT>>,
      \* f "s", 1; f "a" .. "b"; f {}, 1; x = f "s"; x = f {1}; f "s" "t"
      <<IDENT, STRING_, COMMA, INT>>,
      <<IDENT, STRING_, CONCAT, STRING_>>,
      <<IDENT, LBRACE, RBRACE, COMMA, INT>>,
      <<IDENT, ASSIGN, IDENT, STRING_>>,
      <<IDENT, ASSIGN, IDENT, LBRACE, INT, RBRACE>>,
      <<IDENT, STRING_, STRING_>>,
      \* for a in x do end; for a, b in x, y do end; for a, b, c in x do end
      <<FOR, IDENT, IN_, IDENT, DO, END>>,
      <<FOR, IDENT, COMMA, IDENT, IN_, IDENT, COMMA, IDENT, DO, END>>,
      <<FOR, IDENT, COMMA, IDENT, COMMA, IDENT, IN_, IDENT, DO, END>>,
      \* x = true; break; while true do end
      <<IDENT, ASSIGN, TRUE_>>,
      <<BREAK>>,
      <<WHILE, TRUE_, DO, END>>,
      \* @.x = 1; x = @ + 1; f(@)
      <<ILLEGAL, DOT, IDENT, ASSIGN, INT>>,
      <<IDENT, ASSIGN, ILLEGAL, PLUS, INT>>,
      <<IDENT, LPAREN, ILLEGAL, RPAREN>> }

\* The fields of the table constructors: 1, a, a = 1, a = "s".
MaxFields == 3

TableFieldForms ==
    {<<INT>>, <<IDENT>>, <<IDENT, ASSIGN, INT>>, <<IDENT, ASSIGN, STRING_>>}

\* n fields with a comma between them
RECURSIVE FieldLists(_)
FieldLists(n) ==
    IF n = 0 THEN {<<>>}
    ELSE IF n = 1 THEN TableFieldForms
    ELSE {fs \o <<COMMA>> \o f : fs \in FieldLists(n - 1), f \in TableFieldForms}

\* x = { field, ..., field } with at most MaxFields fields
TableInputs ==
    UNION {{<<IDENT, ASSIGN, LBRACE>> \o fs \o <<RBRACE>> : fs \in FieldLists(n)}
              : n \in 0..MaxFields}

\* The postfix operators: .b, [1], :m(), :m(1, c), (), (1).
MaxPostfix == 2

PostfixForms ==
    {<<DOT, IDENT>>, <<LBRACKET, INT, RBRACKET>>,
     <<COLON, IDENT, LPAREN, RPAREN>>,
     <<COLON, IDENT, LPAREN, INT, COMMA, IDENT, RPAREN>>,
     <<LPAREN, RPAREN>>, <<LPAREN, INT, RPAREN>>}

RECURSIVE PostfixChains(_)
PostfixChains(n) ==
    IF n = 0 THEN {<<>>}
    ELSE {c \o f : c \in PostfixChains(n - 1), f \in PostfixForms}

\* x = a followed by at most MaxPostfix postfix operators, and then by
\* nothing or by + 1
PostfixInputs ==
    UNION {{<<IDENT, ASSIGN, IDENT>> \o c \o rest :
               c \in PostfixChains(n), rest \in {<<>>, <<PLUS, INT>>}}
              : n \in 0..MaxPostfix}

\* The statements of the bodies: x = 1, f(), break.
MaxBody == 2

BodyForms == {<<IDENT, ASSIGN, INT>>, <<IDENT, LPAREN, RPAREN>>, <<BREAK>>}

RECURSIVE Bodies(_)
Bodies(n) ==
    IF n = 0 THEN {<<>>}
    ELSE {b \o s : b \in Bodies(n - 1), s \in BodyForms}

\* for v = e1, e2 do body end and for v = e1, e2, e3 do body end with at most
\* MaxBody statements in the body
NumericForInputs ==
    UNION {{<<FOR, IDENT, ASSIGN, e1, COMMA, INT>> \o step \o <<DO>> \o b
                \o <<END>> :
               e1 \in {INT, IDENT}, step \in {<<>>, <<COMMA, INT>>},
               b \in Bodies(n)}
              : n \in 0..MaxBody}

\* The statements of the sequences: x = 1, f(), local x = 1, a, b = 1, 2,
\* if a then b = 1 end, while a do end, function f() end, a.b.c = 1.
MaxStmts == 2

StatementForms ==
    {<<IDENT, ASSIGN, INT>>,
     <<IDENT, LPAREN, RPAREN>>,
     <<LOCAL_, IDENT, ASSIGN, INT>>,
     <<IDENT, COMMA, IDENT, ASSIGN, INT, COMMA, INT>>,
     <<IF_, IDENT, THEN_, IDENT, ASSIGN, INT, END>>,
     <<WHILE, IDENT, DO, END>>,
     <<FUNCTION, IDENT, LPAREN, RPAREN, END>>,
     <<IDENT, DOT, IDENT, DOT, IDENT, ASSIGN, INT>>}

RECURSIVE StatementLists(_)
StatementLists(n) ==
    IF n = 0 THEN {<<>>}
    ELSE {l \o s : l \in StatementLists(n - 1), s \in StatementForms}

\* at most MaxStmts statements written one after another
StatementInputs == UNION {StatementLists(n) : n \in 0..MaxStmts}

ParseInputs ==
    CoreInputs \cup ChainInputs \cup LogicInputs \cup SampleInputs
        \cup TableInputs \cup PostfixInputs \cup NumericForInputs
        \cup StatementInputs

identLetters ==
    <<"a", "b", "c", "d", "e", "f", "g", "h", "i", "j", "k", "l", "m", "n">>

\* The text of a keyword token.
keywordText(kind) ==
    CASE kind = AND -> <<"a", "n", "d">>
      [] kind = OR -> <<"o", "r">>
      [] kind = NOT -> <<"n", "o", "t">>
      [] kind = IF_ -> <<"i", "f">>
      [] kind = THEN_ -> <<"t", "h", "e", "n">>
      [] kind = ELSE_ -> <<"e", "l", "s", "e">>
      [] kind = ELSEIF -> <<"e", "l", "s", "e", "i", "f">>
      [] kind = END -> <<"e", "n", "d">>
      [] kind = FOR -> <<"f", "o", "r">>
      [] kind = IN_ -> <<"i", "n">>
      [] kind = WHILE -> <<"w", "h", "i", "l", "e">>
      [] kind = REPEAT -> <<"r", "e", "p", "e", "a", "t">>
      [] kind = UNTIL -> <<"u", "n", "t", "i", "l">>
      [] kind = FUNCTION -> <<"f", "u", "n", "c", "t", "i", "o", "n">>
      [] kind = RETURN -> <<"r", "e", "t", "u", "r", "n">>
      [] kind = LOCAL_ -> <<"l", "o", "c", "a", "l">>
      [] kind = BREAK -> <<"b", "r", "e", "a", "k">>
      [] kind = GOTO -> <<"g", "o", "t", "o">>
      [] kind = TRUE_ -> <<"t", "r", "u", "e">>
      [] kind = FALSE_ -> <<"f", "a", "l", "s", "e">>
      [] kind = NIL -> <<"n", "i", "l">>
      [] kind = DO -> <<"d", "o">>

\* How many of the first i kinds are the kind k.
RECURSIVE countOf(_, _, _)
countOf(kinds, k, i) ==
    IF i = 0 THEN 0
    ELSE countOf(kinds, k, i - 1) + (IF kinds[i] = k THEN 1 ELSE 0)

\* The text the lexer gives the i-th token of the source.
literalAt(kinds, i) ==
    LET k == kinds[i]
        n == countOf(kinds, k, i)
    IN  CASE k = IDENT -> <<identLetters[((n - 1) % Len(identLetters)) + 1]>>
          [] k = INT -> <<DigitChar(n % 10)>>
          [] k = FLOAT -> <<DigitChar(n % 10), ".", "5">>
          [] k = STRING_ -> <<"s", DigitChar(n % 10)>>
          [] k = ILLEGAL -> <<"@">>
          [] k \in DOMAIN keywords -> keywordText(k)
          [] OTHER -> spelling(k)

\* The i-th token as the source spells it.
tokenText(kinds, i) ==
    IF kinds[i] = STRING_ THEN <<DQUOTE>> \o literalAt(kinds, i) \o <<DQUOTE>>
    ELSE literalAt(kinds, i)

RECURSIVE linesFrom(_, _)
linesFrom(kinds, i) ==
    IF i > Len(kinds) THEN <<>>
    ELSE tokenText(kinds, i) \o <<NL>> \o linesFrom(kinds, i + 1)

SourceOf(kinds) == linesFrom(kinds, 1)

\* x = @
SourceSamples == {<<"x", SP, "=", SP, "@">>}

ParseSources == {SourceOf(kinds) : kinds \in ParseInputs} \cup SourceSamples

\* NewParser(input), and Parse called.  The lexer NewParser runs is its own:
\* lx and toks, which LexSpec follows, stay as they are.
ParseInit ==
    /\ input \in ParseSources
    /\ lx = NewLexer
    /\ toks = <<>>
    /\ lexState = "idle"
    /\ tokens = TokensOf(input)
    /\ pos = 0
    /\ errors = <<>>
    /\ stack = <<Frame("Parse")>>
    /\ ret = Null
    /\ program = <<>>
    /\ perr = Null
    /\ parseState = "run"
    /\ CodecIdle

ParseNext ==
    \/ Parse
    \/ parseStatement
    \/ parseIfStatement
    \/ parseWhileStatement
    \/ parseRepeatStatement
    \/ parseForStatement
    \/ parseFunctionStatement
    \/ parseFunctionName
    \/ parseLocalStatement
    \/ parseLocalFunction
    \/ parseLocalAssignment
    \/ parseReturnStatement
    \/ parseGotoStatement
    \/ parseLabelStatement
    \/ parseAssignmentOrExpression
    \/ parseBlock
    \/ parseExpressionList
    \/ parseExpression
    \/ parseOr
    \/ parseAnd
    \/ parseComparison
    \/ parseConcat
    \/ parseBitwiseOr
    \/ parseBitwiseXor
    \/ parseBitwiseAnd
    \/ parseAddSub
    \/ parseMulDivMod
    \/ parseUnary
    \/ parsePow
    \/ parsePostfix
    \/ parsePrimary
    \/ parseTableLiteral
    \/ parseTableField
    \/ parseFunctionLiteral

ParseSpec == ParseInit /\ [][ParseNext]_vars

\* Parse is sequential code: the function that stands innermost runs on.
FairParseSpec == ParseSpec /\ WF_vars(ParseNext)

(***************************************************************************)
(* Claims about the lexer                                                  *)
(***************************************************************************)

\* The source text with every line comment cut out: outside a string, "--"
\* and everything up to (not including) the next newline.  mode is "code",
\* "comment", or the quote character of the string being read.
RECURSIVE stripFrom(_, _, _)
stripFrom(in, i, mode) ==
    IF i > Len(in) THEN <<>>
    ELSE IF mode = "comment"
    THEN IF in[i] = NL THEN <<NL>> \o stripFrom(in, i + 1, "code")
         ELSE stripFrom(in, i + 1, "comment")
    ELSE IF mode = "code"
    THEN IF in[i] = "-" /\ i < Len(in) /\ in[i + 1] = "-"
         THEN stripFrom(in, i + 2, "comment")
         ELSE <<in[i]>> \o
              stripFrom(in, i + 1,
                        IF in[i] \in {DQUOTE, SQUOTE} THEN in[i] ELSE "code")
    ELSE IF in[i] = BACKSLASH /\ i < Len(in)
    THEN <<in[i], in[i + 1]>> \o stripFrom(in, i + 2, mode)
    ELSE <<in[i]>> \o stripFrom(in, i + 1, IF in[i] = mode THEN "code" ELSE mode)

StripComments(in) == stripFrom(in, 1, "code")

\* Kind, text and line of each token of a sequence (the column depends on
\* the characters cut out of the line).
KindTextLine(ts) ==
    [i \in 1..Len(ts) |-> <<ts[i].Type, ts[i].Literal, ts[i].Line>>]

\* C4: the tokens of an input are the tokens of the same input with every line
\* comment removed: comments and whitespace never yield a token, however many
\* comments there are and however they follow one another.
C4_CommentsNeverEmitted ==
    lexState = "done" =>
        KindTextLine(toks) = KindTextLine(TokensOf(StripComments(input)))

\* C5: Tokens terminates: it calls NextToken at most Len(input) + 1 times, since
\* a call that returns a token other than EOF moves the scan position forward
\* and the position never exceeds the length of the input; what Tokens returns
\* is non-empty, ends in EOF and holds no other EOF.
C5_TokensEndInOneEOF ==
    /\ [](lexState = "done" =>
            /\ toks # <<>>
            /\ toks[Len(toks)].Type = EOF
            /\ \A i \in 1..(Len(toks) - 1) : toks[i].Type # EOF)
    /\ [](lx.pos <= Len(input))
    /\ [][toks' # toks /\ toks'[Len(toks')].Type # EOF => lx'.pos > lx.pos]_vars
    /\ [](lexState = "scan" => Len(toks) <= Len(input))

\* Tokens has returned three tokens or more: two NextToken calls returned a
\* token other than EOF.
C5_Witness == lexState = "done" /\ Len(toks) >= 3 /\ lx.pos = Len(input)

(***************************************************************************)
(* Claims about the parser                                                 *)
(***************************************************************************)
Returned == parseState = "done"

Kinds(ts) == [i \in 1..Len(ts) |-> ts[i].Type]

\* The statement Parse returned, when it returned one assignment to a name
\* with one value and no diagnostics; that value.
OneAssignment ==
    /\ Returned
    /\ perr = Null
    /\ Len(program) = 1
    /\ program[1].kind = "AssignmentStatement"
    /\ Len(program[1].Names) = 1
    /\ Len(program[1].Values) = 1

Value == program[1].Values[1]

\* The node e is the operand the token tok spells: a name or a number.
IsAtom(tok) == tok.Type \in {IDENT, INT, STRING_}

Leaf(e, tok) ==
    \/ tok.Type = IDENT /\ e.kind = "Identifier" /\ e.Name = tok.Literal
    \/ tok.Type = INT /\ e.kind = "NumberLiteral" /\ e.IsInt
    \/ tok.Type = STRING_ /\ e.kind = "StringLiteral"
                          /\ e.Value = tok.Literal

Binary(e, op) == e.kind = "BinaryExpression" /\ e.Operator = op

Relational == {EQ, NE, LT, LE, GT, GE}

\* The cut of the diagnostics touches no parse that returns.
ErrorsFit == Returned => Len(errors) < MaxErrors

\* While tokens are left, no table holds as many fields as appendField keeps.
FieldsFit ==
    \A i \in 1..Len(stack) :
        stack[i].fn = "parseTableLiteral" /\ stack[i].pc = "field"
            /\ pos < Len(tokens)
        => Len(stack[i].loc.fields) < Len(tokens)

\* C1: Parse terminates on every source, also on one in which a table
\* constructor, a parameter list, an argument list or a block is cut off by
\* the end of the input: every run of the parser comes to its end.
C1_ParseTerminates == <>(parseState \in {"done", "panic"})

\* C2: Parse never aborts with a runtime failure, whatever the object of the
\* member access or index expression an assignment stores to.
C2_ParseNeverPanics == parseState # "panic"

RECURSIVE JoinedUpTo(_, _)
JoinedUpTo(msgs, n) ==
    IF n = 0 THEN ""
    ELSE IF n = 1 THEN msgs[1]
    ELSE JoinedUpTo(msgs, n - 1) \o "\n" \o msgs[n]

\* C3: Parse returns an error exactly when a diagnostic was appended during
\* the parse (diagnostics are only ever appended); the text of the error is the
\* diagnostics in the order recorded with a newline between them; the Program
\* is returned with and without an error.
C3_ErrorIffDiagnostics ==
    /\ [](Returned =>
            /\ (perr # Null) <=> (errors # <<>>)
            /\ perr # Null => perr.text = JoinedUpTo(errors, Len(errors))
            /\ \A i \in 1..Len(program) : program[i] # Null)
    /\ [][Len(errors') >= Len(errors)
          /\ SubSeq(errors', 1, Len(errors)) = errors]_vars

C3_Witness ==
    /\ Returned
    /\ perr # Null
    /\ Len(errors) >= 2
    /\ program # <<>>

\* The tokens are x = a r1 b l c r2 d with r1, r2 relational and l "and" or
\* "or".
IsLogicOfRelations ==
    /\ Len(tokens) = 10
    /\ Kinds(tokens)[1] = IDENT
    /\ Kinds(tokens)[2] = ASSIGN
    /\ \A i \in {3, 5, 7, 9} : IsAtom(tokens[i])
    /\ tokens[4].Type \in Relational
    /\ tokens[6].Type \in {AND, OR}
    /\ tokens[8].Type \in Relational

\* C6: "or" binds looser than "and", which binds looser than the relational
\* operators: a == b and c == d (and the same with or) parses with the logical
\* operator at the root and a relational node as each of its children.
C6_LogicBelowRelational ==
    Returned /\ IsLogicOfRelations =>
        /\ OneAssignment
        /\ Binary(Value, tokens[6].Type)
        /\ Binary(Value.Left, tokens[4].Type)
        /\ Binary(Value.Right, tokens[8].Type)

\* The tokens are x = e1 op1 e2 op2 e3 with op1, op2 relational.
IsRelationalChain ==
    /\ Len(tokens) = 8
    /\ Kinds(tokens)[1] = IDENT
    /\ Kinds(tokens)[2] = ASSIGN
    /\ \A i \in {3, 5, 7} : IsAtom(tokens[i])
    /\ tokens[4].Type \in Relational
    /\ tokens[6].Type \in Relational

\* C7: a chain of relational operators e1 op1 e2 op2 e3 parses without
\* diagnostics as ((e1 op1 e2) op2 e3).
C7_RelationalChainLeft ==
    Returned /\ IsRelationalChain =>
        /\ OneAssignment
        /\ Binary(Value, tokens[6].Type)
        /\ Binary(Value.Left, tokens[4].Type)
        /\ Leaf(Value.Left.Left, tokens[3])
        /\ Leaf(Value.Left.Right, tokens[5])
        /\ Leaf(Value.Right, tokens[7])

C7_Witness ==
    /\ Returned
    /\ IsRelationalChain
    /\ tokens[4].Type = LT
    /\ tokens[6].Type = LE
    /\ Value.Left.Operator = LT

Unary(e, op) == e.kind = "UnaryExpression" /\ e.Operator = op

\* C8: "^" is right-associative and binds tighter than a unary operator:
\* a ^ b ^ c is a ^ (b ^ c), -a ^ b is -(a ^ b), and a ^ -b is a ^ (-b), each
\* without diagnostics.
C8_PowRightAssociative ==
    /\ Returned /\ Kinds(tokens) = <<IDENT, ASSIGN, IDENT, POW, IDENT, POW,
                                    IDENT, EOF>>
       => /\ OneAssignment
          /\ Binary(Value, POW)
          /\ Leaf(Value.Left, tokens[3])
          /\ Binary(Value.Right, POW)
          /\ Leaf(Value.Right.Left, tokens[5])
          /\ Leaf(Value.Right.Right, tokens[7])
    /\ Returned /\ Kinds(tokens) = <<IDENT, ASSIGN, MINUS, IDENT, POW, IDENT,
                                    EOF>>
       => /\ OneAssignment
          /\ Unary(Value, MINUS)
          /\ Binary(Value.Right, POW)
          /\ Leaf(Value.Right.Left, tokens[4])
          /\ Leaf(Value.Right.Right, tokens[6])
    /\ Returned /\ Kinds(tokens) = <<IDENT, ASSIGN, IDENT, POW, MINUS, IDENT,
                                    EOF>>
       => /\ OneAssignment
          /\ Binary(Value, POW)
          /\ Leaf(Value.Left, tokens[3])
          /\ Unary(Value.Right, MINUS)
          /\ Leaf(Value.Right.Right, tokens[6])

C8_Witness ==
    /\ Returned
    /\ Kinds(tokens) = <<IDENT, ASSIGN, IDENT, POW, IDENT, POW, IDENT, EOF>>
    /\ Value.Right.kind = "BinaryExpression"

\* The tokens are x = e1 .. e2 .. ... .. en, n operands.
IsConcatChain(n) ==
    /\ Len(tokens) = 2 * n + 2
    /\ Kinds(tokens)[1] = IDENT
    /\ Kinds(tokens)[2] = ASSIGN
    /\ \A i \in 1..n : IsAtom(tokens[2 * i + 1])
    /\ \A i \in 1..(n - 1) : tokens[2 * i + 2].Type = CONCAT

\* e is the left fold of the first n operands of the chain.
RECURSIVE IsLeftFold(_, _)
IsLeftFold(e, n) ==
    IF n = 1 THEN Leaf(e, tokens[3])
    ELSE /\ Binary(e, CONCAT)
         /\ Leaf(e.Right, tokens[2 * n + 1])
         /\ IsLeftFold(e.Left, n - 1)

\* C9: a concatenation chain e1 .. e2 .. ... .. en parses as the left fold
\* in source order: (((e1 .. e2) .. e3) ...) .. en.
C9_ConcatLeftFold ==
    \A n \in 2..(MaxChain + 2) :
        Returned /\ IsConcatChain(n) => OneAssignment /\ IsLeftFold(Value, n)

C9_Witness ==
    /\ Returned
    /\ IsConcatChain(4)
    /\ Binary(Value.Left.Left, CONCAT)

\* The kinds of token an expression can start with.
PrimaryStarts ==
    {IDENT, INT, FLOAT, STRING_, TRUE_, FALSE_, NIL, LBRACE, FUNCTION, LPAREN}

\* parsePrimary is about to read a token that starts no expression (the list
\* of diagnostics being short of its cut).
AtUnexpectedToken ==
    /\ At("parsePrimary")
    /\ Top.pc = "start"
    /\ tokens[IF pos >= Len(tokens) THEN Len(tokens) ELSE pos + 1].Type
           \notin PrimaryStarts
    /\ Len(errors) < MaxErrors

\* C10: at a token that starts no expression the parser appends exactly one
\* "unexpected token" diagnostic, moves the cursor on by exactly one token (or
\* leaves it at the end of the input) and yields an ErrorNode; "x = @" returns
\* an error and a Program of one AssignmentStatement named x whose one value
\* is an ErrorNode.
C10_UnexpectedTokenRecovery ==
    /\ [][AtUnexpectedToken =>
            LET at == IF pos >= Len(tokens) THEN Len(tokens) ELSE pos + 1
            IN  /\ errors' =
                       Append(errors,
                              "unexpected token: " \o tokens[at].Type
                                  \o " at line " \o ToString(tokens[at].Line))
                /\ \/ pos' = pos + 1 /\ pos' <= Len(tokens)
                   \/ pos' = pos /\ tokens[at].Type = EOF
                /\ ret'.kind = "ErrorNode"
                /\ Len(stack') = Len(stack) - 1]_vars
    /\ [](Returned /\ input = <<"x", SP, "=", SP, "@">> =>
            /\ perr # Null
            /\ Len(errors) = 1
            /\ Len(program) = 1
            /\ program[1].kind = "AssignmentStatement"
            /\ Len(program[1].Names) = 1
            /\ program[1].Names[1].Name = <<"x">>
            /\ Len(program[1].Values) = 1
            /\ program[1].Values[1].kind = "ErrorNode")

C10_Witness ==
    /\ Returned
    /\ input = <<"x", SP, "=", SP, "@">>
    /\ errors = <<"unexpected token: ILLEGAL at line 1">>
    /\ program[1].Values[1].kind = "ErrorNode"

\* The tokens start with the kinds p.
StartsWith(p) ==
    /\ Len(tokens) >= Len(p)
    /\ SubSeq(Kinds(tokens), 1, Len(p)) = p

\* The source starts with an expression that is no target of an assignment,
\* and "=" follows it: a literal, a call, a binary or a unary expression.
NonTargetThenAssign ==
    \/ StartsWith(<<INT, ASSIGN>>)
    \/ StartsWith(<<STRING_, ASSIGN>>)
    \/ StartsWith(<<IDENT, LPAREN, RPAREN, ASSIGN>>)
    \/ StartsWith(<<IDENT, PLUS, IDENT, ASSIGN>>)
    \/ StartsWith(<<MINUS, IDENT, ASSIGN>>)

\* C11: an expression followed by "=" must be an identifier, a member access
\* or an index: after any other expression (a literal, a call, a binary or a
\* unary expression) the "=" is not taken silently, a diagnostic is recorded
\* and Parse returns an error.
C11_NonTargetAssignRejected ==
    Returned /\ NonTargetThenAssign => perr # Null /\ errors # <<>>

\* The tokens are n1, ..., nk = v1, ..., vm: k names and m values.
IsAssignmentOf(k, m) ==
    /\ Len(tokens) = 2 * k + 2 * m
    /\ \A i \in 1..k : tokens[2 * i - 1].Type = IDENT
    /\ \A i \in 1..(k - 1) : tokens[2 * i].Type = COMMA
    /\ tokens[2 * k].Type = ASSIGN
    /\ \A j \in 1..m : IsAtom(tokens[2 * k + 2 * j - 1])
    /\ \A j \in 1..(m - 1) : tokens[2 * k + 2 * j].Type = COMMA

\* C12: an assignment with k >= 1 names and m >= 1 values, k and m equal or
\* not, parses without diagnostics to one AssignmentStatement with the k names
\* and the m values in source order.
C12_AssignmentNamesAndValues ==
    \A k \in 1..3, m \in 1..3 :
        Returned /\ IsAssignmentOf(k, m) =>
            /\ perr = Null
            /\ Len(program) = 1
            /\ program[1].kind = "AssignmentStatement"
            /\ Len(program[1].Names) = k
            /\ \A i \in 1..k :
                   program[1].Names[i].Name = tokens[2 * i - 1].Literal
            /\ Len(program[1].Values) = m
            /\ \A j \in 1..m :
                   Leaf(program[1].Values[j], tokens[2 * k + 2 * j - 1])

\* The tokens are x = { field, ..., field } with fields 1, a, a = 1, a = "s".
IsTableInput == Kinds(tokens) \in {Append(k, EOF) : k \in TableInputs}

\* The field written from the i-th token on: where its key (0: none) and its
\* value stand, and where the token behind it stands.
fieldAt(i) ==
    IF tokens[i + 1].Type = ASSIGN
    THEN [key |-> i, value |-> i + 2, next |-> i + 3]
    ELSE [key |-> 0, value |-> i, next |-> i + 1]

\* The fields written from the i-th token on, up to the closing brace.
RECURSIVE fieldsFrom(_)
fieldsFrom(i) ==
    IF tokens[i].Type = RBRACE THEN <<>>
    ELSE LET f == fieldAt(i)
         IN  <<f>> \o (IF tokens[f.next].Type = COMMA
                       THEN fieldsFrom(f.next + 1) ELSE <<>>)

\* C13: a table constructor with n fields and a comma between them parses
\* without diagnostics to a TableLiteral with n fields in source order; a
\* field has a key exactly when "=" followed its first expression, the key is
\* that first expression and the value the expression behind the "=";
\* otherwise it has no key and the first expression is its value.  {} has no
\* fields, {1, 2, 3} three fields without keys, {name = "test", count = 5} two
\* fields with Identifier keys.
C13_TableFields ==
    Returned /\ IsTableInput =>
        LET written == fieldsFrom(4)
        IN  /\ OneAssignment
            /\ Value.kind = "TableLiteral"
            /\ Len(Value.Fields) = Len(written)
            /\ \A i \in 1..Len(written) :
                   /\ Value.Fields[i].kind = "TableField"
                   /\ Leaf(Value.Fields[i].Value, tokens[written[i].value])
                   /\ IF written[i].key = 0
                      THEN Value.Fields[i].Key = Null
                      ELSE /\ Value.Fields[i].Key # Null
                           /\ Value.Fields[i].Key.kind = "Identifier"
                           /\ Leaf(Value.Fields[i].Key, tokens[written[i].key])

\* x = {1, a = ..., ...} has returned: a field without a key, then one with.
C13_Witness ==
    /\ Returned
    /\ IsTableInput
    /\ Len(Value.Fields) = 3
    /\ Value.Fields[1].Key = Null
    /\ Value.Fields[2].Key # Null
    /\ Value.Fields[1].Value.kind = "NumberLiteral"

\* The tokens are x = a followed by postfix operators .b, [1], :m(), :m(1, c),
\* (), (1), and then by nothing or by + 1.
IsPostfixInput == Kinds(tokens) \in {Append(k, EOF) : k \in PostfixInputs}

\* Where the arguments written from the i-th token on stand, up to the ")".
RECURSIVE argsFrom(_)
argsFrom(i) ==
    IF tokens[i].Type = RPAREN THEN <<>>
    ELSE <<i>> \o (IF tokens[i + 1].Type = COMMA THEN argsFrom(i + 2)
                   ELSE <<>>)

\* The token behind the ")" of an argument list that starts at the i-th
\* token.
behindArgs(i) ==
    LET n == Len(argsFrom(i)) IN IF n = 0 THEN i + 1 ELSE i + 2 * n

\* The postfix operators written from the i-th token on, in source order:
\* the kind of node, where the name, the index or the arguments stand.
RECURSIVE postfixFrom(_)
postfixFrom(i) ==
    LET t == tokens[i].Type
    IN  IF t = DOT
        THEN <<[node |-> "MemberExpression", name |-> i + 1, args |-> <<>>]>>
                 \o postfixFrom(i + 2)
        ELSE IF t = LBRACKET
        THEN <<[node |-> "IndexExpression", name |-> i + 1, args |-> <<>>]>>
                 \o postfixFrom(i + 3)
        ELSE IF t = COLON
        THEN <<[node |-> "FunctionCall", name |-> i + 1,
                args |-> argsFrom(i + 3)]>>
                 \o postfixFrom(behindArgs(i + 3))
        ELSE IF t = LPAREN
        THEN <<[node |-> "FunctionCall", name |-> 0,
                args |-> argsFrom(i + 1)]>>
                 \o postfixFrom(behindArgs(i + 1))
        ELSE <<>>

\* e is the primary with the first n of the operators ops attached, each node
\* holding the expression built before it.
RECURSIVE IsPostfixOf(_, _, _)
IsPostfixOf(e, ops, n) ==
    IF n = 0 THEN Leaf(e, tokens[3])
    ELSE LET o == ops[n]
         IN  /\ e.kind = o.node
             /\ CASE o.node = "MemberExpression" ->
                         /\ e.Member = tokens[o.name].Literal
                         /\ IsPostfixOf(e.Object, ops, n - 1)
                  [] o.node = "IndexExpression" ->
                         /\ Leaf(e.Index, tokens[o.name])
                         /\ IsPostfixOf(e.Object, ops, n - 1)
                  [] o.node = "FunctionCall" ->
                         /\ e.Method = IF o.name = 0 THEN <<>>
                                        ELSE tokens[o.name].Literal
                         /\ Len(e.Arguments) = Len(o.args)
                         /\ \A j \in 1..Len(o.args) :
                                Leaf(e.Arguments[j], tokens[o.args[j]])
                         /\ IsPostfixOf(e.Function, ops, n - 1)

\* C14: the postfix operators attach to the primary in source order, each
\* node taking the expression built so far as its object or callee: .name
\* gives a MemberExpression with that member name, [e] an IndexExpression with
\* the index e, :name(args) a FunctionCall with the method name and the
\* arguments in order, (args) a FunctionCall with the empty method; the loop
\* stops at the first token that starts none of these (here the end of the
\* input or "+", which makes the postfix expression the left operand).
C14_PostfixInSourceOrder ==
    Returned /\ IsPostfixInput =>
        LET ops == postfixFrom(4)
            followed == tokens[Len(tokens) - 2].Type = PLUS
        IN  /\ OneAssignment
            /\ IF followed
               THEN /\ Binary(Value, PLUS)
                    /\ Leaf(Value.Right, tokens[Len(tokens) - 1])
                    /\ IsPostfixOf(Value.Left, ops, Len(ops))
               ELSE IsPostfixOf(Value, ops, Len(ops))

\* x = a:m(1, c).b has returned: a member of a method call with two arguments.
C14_Witness ==
    /\ Returned
    /\ IsPostfixInput
    /\ Value.kind = "MemberExpression"
    /\ Value.Object.kind = "FunctionCall"
    /\ Value.Object.Method # <<>>
    /\ Len(Value.Object.Arguments) = 2
    /\ Value.Object.Function.kind = "Identifier"

\* parsePostfix has the arguments of a call written as a string or a table
\* behind the callee, and is about to build the call.
AtSugarCall == At("parsePostfix") /\ Top.pc = "sugar"

\* C15: a string or a table constructor right behind a callee makes a call
\* with exactly one argument, that literal; what follows the literal (a "..",
\* a "," or another operator) is no part of the arguments of the call.
C15_SugarCallOneArgument ==
    AtSugarCall =>
        /\ Len(ret.items) = 1
        /\ ret.items[1].kind \in {"StringLiteral", "TableLiteral"}

\* The tokens are for v = e1, e2 do body end or for v = e1, e2, e3 do body end
\* with a body of statements x = 1, f(), break.
IsNumericForInput == Kinds(tokens) \in {Append(k, EOF) : k \in NumericForInputs}

\* The kinds of node of the statements written from the i-th token on, up to
\* the "end".
RECURSIVE bodyFrom(_)
bodyFrom(i) ==
    IF tokens[i].Type = BREAK THEN <<"BreakStatement">> \o bodyFrom(i + 1)
    ELSE IF tokens[i].Type = IDENT /\ tokens[i + 1].Type = ASSIGN
    THEN <<"AssignmentStatement">> \o bodyFrom(i + 3)
    ELSE IF tokens[i].Type = IDENT /\ tokens[i + 1].Type = LPAREN
    THEN <<"FunctionCallStatement">> \o bodyFrom(i + 3)
    ELSE <<>>

\* C16: for v = e1, e2 [, e3] do ... end parses without diagnostics to a
\* ForStatement with an Init that is never nil (the assignment v = e1), the
\* Condition e2 and a Post that is never nil: an assignment to v whose one
\* value is e3, or is unset when no step is written; the Body holds the
\* statements of the body in order.
C16_NumericFor ==
    Returned /\ IsNumericForInput =>
        LET hasStep == tokens[7].Type = COMMA
            bodyAt == IF hasStep THEN 10 ELSE 8
            written == bodyFrom(bodyAt)
            s == program[1]
        IN  /\ perr = Null
            /\ Len(program) = 1
            /\ s.kind = "ForStatement"
            /\ s.Init # Null
            /\ s.Init.kind = "AssignmentStatement"
            /\ Len(s.Init.Names) = 1
            /\ s.Init.Names[1].Name = tokens[2].Literal
            /\ Len(s.Init.Values) = 1
            /\ Leaf(s.Init.Values[1], tokens[4])
            /\ Leaf(s.Condition, tokens[6])
            /\ s.Post # Null
            /\ s.Post.kind = "AssignmentStatement"
            /\ Len(s.Post.Names) = 1
            /\ s.Post.Names[1].Name = tokens[2].Literal
            /\ Len(s.Post.Values) = 1
            /\ IF hasStep THEN Leaf(s.Post.Values[1], tokens[8])
               ELSE s.Post.Values[1] = Null
            /\ Len(s.Body) = Len(written)
            /\ \A i \in 1..Len(written) : s.Body[i].kind = written[i]

\* A for with a step has returned with the two statements of its body.
C16_Witness ==
    /\ Returned
    /\ IsNumericForInput
    /\ Len(program[1].Body) = 2
    /\ program[1].Body[1].kind = "AssignmentStatement"
    /\ program[1].Body[2].kind = "BreakStatement"
    /\ program[1].Post.Values[1] # Null

\* The tokens are for n1, ..., nk in e1, ..., em do end: k names, m values.
IsGenericForOf(k, m) ==
    /\ Len(tokens) = 2 * k + 2 * m + 3
    /\ tokens[1].Type = FOR
    /\ \A i \in 1..k : tokens[2 * i].Type = IDENT
    /\ \A i \in 1..(k - 1) : tokens[2 * i + 1].Type = COMMA
    /\ tokens[2 * k + 1].Type = IN_
    /\ \A j \in 1..m : IsAtom(tokens[2 * k + 2 * j])
    /\ \A j \in 1..(m - 1) : tokens[2 * k + 2 * j + 1].Type = COMMA
    /\ tokens[2 * k + 2 * m + 1].Type = DO
    /\ tokens[2 * k + 2 * m + 2].Type = END

\* C17: for n1, ..., nk in e1, ..., em do ... end with any k >= 1 loop
\* variables and any m >= 1 iterator expressions parses without diagnostics to
\* one ForInStatement with the k names and the m values in source order.
C17_GenericForNamesAndValues ==
    \A k \in 1..3, m \in 1..2 :
        Returned /\ IsGenericForOf(k, m) =>
            /\ perr = Null
            /\ Len(program) = 1
            /\ program[1].kind = "ForInStatement"
            /\ Len(program[1].Names) = k
            /\ \A i \in 1..k : program[1].Names[i].Name = tokens[2 * i].Literal
            /\ Len(program[1].Values) = m
            /\ \A j \in 1..m :
                   Leaf(program[1].Values[j], tokens[2 * k + 2 * j])

\* The tokens are statements written one after another, each one of x = 1,
\* f(), local x = 1, a, b = 1, 2, if a then b = 1 end, while a do end,
\* function f() end, a.b.c = 1.
IsStatementInput == Kinds(tokens) \in {Append(k, EOF) : k \in StatementInputs}

\* The statement written from the i-th token on: the kind of its node and how
\* many tokens it has.
statementAt(i) ==
    LET t == tokens[i].Type
        u == tokens[i + 1].Type
    IN  CASE t = LOCAL_ -> [node |-> "LocalAssignmentStatement", len |-> 4]
          [] t = IF_ -> [node |-> "IfStatement", len |-> 7]
          [] t = WHILE -> [node |-> "WhileStatement", len |-> 4]
          [] t = FUNCTION -> [node |-> "FunctionStatement", len |-> 5]
          [] t = IDENT /\ u = LPAREN ->
                 [node |-> "FunctionCallStatement", len |-> 3]
          [] t = IDENT /\ u = ASSIGN ->
                 [node |-> "AssignmentStatement", len |-> 3]
          [] t = IDENT /\ u = COMMA ->
                 [node |-> "AssignmentStatement", len |-> 7]
          [] t = IDENT /\ u = DOT ->
                 [node |-> "AssignmentStatement", len |-> 7]

\* The kinds of node of the statements written from the i-th token on.
RECURSIVE statementsFrom(_)
statementsFrom(i) ==
    IF tokens[i].Type = EOF THEN <<>>
    ELSE <<statementAt(i).node>> \o statementsFrom(i + statementAt(i).len)

\* C18: for a source of k well-formed statements written one after another,
\* with nothing between them, Parse comes to its end and returns a nil error
\* and a Program of exactly k top-level statements, in source order, one for
\* each statement of the source.
C18_OneNodePerStatement ==
    parseState # "run" /\ IsStatementInput =>
        LET written == statementsFrom(1)
        IN  /\ Returned
            /\ perr = Null
            /\ Len(program) = Len(written)
            /\ \A i \in 1..Len(written) : program[i].kind = written[i]

\* The kinds of token that are a whole expression by themselves.
SingleTokenExpressions == {IDENT, INT, FLOAT, STRING_, TRUE_, FALSE_, NIL}

\* The binary operators; the node of each is built with the line of the
\* operator token.
BinaryOperators ==
    {OR, AND, EQ, NE, LT, LE, GT, GE, CONCAT, LSHIFT, RSHIFT, POW, HASH, PLUS,
     MINUS, STAR, SLASH, MOD}

\* C19: every node carries in TokenLine the line of its own defining token,
\* whatever line the token behind it stands on: a literal or an identifier the
\* line of its token, a binary node the line of its operator, a statement the
\* line of its keyword.  Every token of the sources stands on a line of its
\* own.
C19_TokenLineOfOwnToken ==
    Returned /\ perr = Null =>
        /\ \* x = e, with e of one token
           Len(tokens) = 4 /\ tokens[1].Type = IDENT /\ tokens[2].Type = ASSIGN
               /\ tokens[3].Type \in SingleTokenExpressions
           => OneAssignment /\ Value.TokenLine = tokens[3].Line
        /\ \* x = a op b
           Len(tokens) = 6 /\ tokens[1].Type = IDENT /\ tokens[2].Type = ASSIGN
               /\ tokens[3].Type = IDENT /\ tokens[4].Type \in BinaryOperators
               /\ tokens[5].Type = IDENT
           => /\ OneAssignment
              /\ Value.TokenLine = tokens[4].Line
              /\ Value.Left.TokenLine = tokens[3].Line
              /\ Value.Right.TokenLine = tokens[5].Line
        /\ \* break, and while ... do end
           Len(program) = 1 /\ tokens[1].Type \in {BREAK, WHILE}
           => program[1].TokenLine = tokens[1].Line

\* The diagnostic with its line that is recorded for the i-th token.
IsReported(i) ==
    \E n \in 1..Len(errors) :
        errors[n] = "unexpected token: " \o tokens[i].Type \o " at line "
                        \o ToString(tokens[i].Line)

\* C20: the parser brings lexical errors to light: whenever the tokens hold
\* an ILLEGAL token, wherever it stands, Parse comes to its end by returning
\* an error that holds a diagnostic with the line of that token; and no
\* ILLEGAL token is passed by the cursor without a diagnostic recorded for it.
C20_IllegalTokenSurfaced ==
    \A i \in 1..Len(tokens) :
        tokens[i].Type = ILLEGAL =>
            /\ parseState # "run" =>
                   /\ Returned
                   /\ perr # Null
                   /\ perr.text = JoinedUpTo(errors, Len(errors))
                   /\ IsReported(i)
            /\ pos >= i => IsReported(i)

(***************************************************************************)
(* Lexer runs over string characters only: quotes, the backslash, two      *)
(* escape letters and a plain letter.                                      *)
(***************************************************************************)
StringAlphabet == {DQUOTE, SQUOTE, BACKSLASH, "n", "0", "a"}

StringInit ==
    /\ input \in SeqsUpTo(StringAlphabet, MaxSrcLen)
    /\ lx = NewLexer
    /\ toks = <<>>
    /\ lexState = "scan"
    /\ ParserIdle
    /\ CodecIdle

StringSpec == StringInit /\ [][LexNext]_vars

Least(S) == CHOOSE x \in S : \A y \in S : x <= y

\* In the string opened at position q, position i is the character of an
\* escape sequence: a backslash that is not itself escaped precedes it.
RECURSIVE IsEscapedAt(_, _, _)
IsEscapedAt(in, q, i) ==
    /\ i > q + 1
    /\ in[i - 1] = BACKSLASH
    /\ ~IsEscapedAt(in, q, i - 1)

\* The positions where the string opened at q can close.
ClosingQuotes(in, q) ==
    {i \in (q + 1)..Len(in) : in[i] = in[q] /\ ~IsEscapedAt(in, q, i)}

\* What the escape sequence \ch is replaced by.
Replacement(ch) ==
    IF ch = "n" THEN NL
    ELSE IF ch = "t" THEN TAB
    ELSE IF ch = "r" THEN CR
    ELSE IF ch = "0" THEN NUL
    ELSE ch

\* The text of positions i..k-1 of the string opened at q, escapes replaced.
RECURSIVE Content(_, _, _, _)
Content(in, q, i, k) ==
    IF i >= k THEN <<>>
    ELSE (IF IsEscapedAt(in, q, i) THEN <<Replacement(in[i])>>
          ELSE IF in[i] = BACKSLASH THEN <<>>
          ELSE <<in[i]>>) \o Content(in, q, i + 1, k)

\* An ILLEGAL token that carries the unterminated-string diagnostic.
IsUnterminated(tok) ==
    /\ tok.Type = ILLEGAL
    /\ Len(tok.Literal) > Len(unterminatedString)
    /\ SubSeq(tok.Literal, Len(tok.Literal) - Len(unterminatedString) + 1,
              Len(tok.Literal)) = unterminatedString

\* C21: a token that starts at a quote is a STRING exactly when the same
\* quote character occurs later outside an escape sequence: the token then
\* ends at the first such quote and its text is the content in between with
\* every escape sequence replaced by its character (n, t, r, 0) or by the
\* escaped character itself.  Otherwise the token is ILLEGAL, the scan has
\* consumed the whole input, and the token after it is EOF.
C21_StringScan ==
    [][/\ (lexState = "scan" /\ currentChar(input, lx) \in {DQUOTE, SQUOTE})
          => LET q == lx.pos + 1
                 tok == toks'[Len(toks')]
                 closers == ClosingQuotes(input, q)
             IN  IF closers # {}
                 THEN /\ tok.Type = STRING_
                      /\ tok.Literal = Content(input, q, q + 1, Least(closers))
                      /\ lx'.pos = Least(closers)
                 ELSE /\ IsUnterminated(tok)
                      /\ lx'.pos = Len(input)
       /\ (toks # <<>> /\ IsUnterminated(toks[Len(toks)]))
          => toks'[Len(toks')].Type = EOF]_vars

\* A single-quoted string holding an escaped n and a double quote has been
\* scanned: its text is a line feed and the double quote.
C21_Witness ==
    /\ input = <<SQUOTE, BACKSLASH, "n", DQUOTE, SQUOTE>>
    /\ Len(toks) = 2
    /\ toks[1].Type = STRING_
    /\ toks[1].Literal = <<NL, DQUOTE>>
    /\ toks[2].Type = EOF

(***************************************************************************)
(* Lexer runs over number characters only: digits, the hex marker, a hex   *)
(* letter, the point, the exponent marker and a sign.                      *)
(***************************************************************************)
NumberAlphabet == {"0", "1", "x", "f", ".", "e", "+"}

NumberInit ==
    /\ input \in SeqsUpTo(NumberAlphabet, MaxSrcLen)
    /\ lx = NewLexer
    /\ toks = <<>>
    /\ lexState = "scan"
    /\ ParserIdle
    /\ CodecIdle

NumberSpec == NumberInit /\ [][LexNext]_vars

CharAt(in, i) == IF i >= 1 /\ i <= Len(in) THEN in[i] ELSE NUL

IsHexDigit(ch) == IsDigit(ch) \/ IsHexLetter(ch)

IsExponentMarker(ch) == ch \in {"e", "E"}

Points(in, s, e) == {i \in s..e : in[i] = "."}

ExponentMarkers(in, s, e) == {i \in s..e : IsExponentMarker(in[i])}

\* Positions s..e of `in` are a hexadecimal literal that cannot be extended.
IsHexScan(in, s, e) ==
    /\ e >= s + 1
    /\ \A i \in (s + 2)..e : IsHexDigit(in[i])
    /\ ~IsHexDigit(CharAt(in, e + 1))

\* Positions s..e of `in` are a decimal literal that cannot be extended:
\* digits, at most one point, at most one exponent marker with its optional
\* sign; what follows is no digit, no first point, no first exponent marker.
IsDecimalScan(in, s, e) ==
    /\ e >= s
    /\ \A i \in s..e :
           \/ IsDigit(in[i])
           \/ in[i] = "."
           \/ IsExponentMarker(in[i])
           \/ in[i] \in {"+", "-"} /\ i > s /\ IsExponentMarker(in[i - 1])
    /\ Cardinality(Points(in, s, e)) <= 1
    /\ Cardinality(ExponentMarkers(in, s, e)) <= 1
    /\ ~IsDigit(CharAt(in, e + 1))
    /\ CharAt(in, e + 1) = "."
           => Points(in, s, e) \cup ExponentMarkers(in, s, e) # {}
    /\ IsExponentMarker(CharAt(in, e + 1)) => ExponentMarkers(in, s, e) # {}
    /\ CharAt(in, e + 1) \in {"+", "-"} => ~IsExponentMarker(in[e])

\* C22: a token that starts at a digit has as text exactly the characters
\* the scan consumed.  Behind 0x or 0X it is an INT made of the prefix and
\* the longest run of hex digits.  Otherwise it holds digits, at most one
\* point and at most one exponent marker with an optional sign, the scan
\* stops before a second point or exponent marker, and the token is FLOAT
\* exactly when it holds a point or an exponent marker, INT otherwise.
C22_NumberScan ==
    [][(lexState = "scan" /\ IsDigit(currentChar(input, lx)))
          => LET s == lx.pos + 1
                 e == lx'.pos
                 tok == toks'[Len(toks')]
             IN  /\ tok.Literal = SubSeq(input, s, e)
                 /\ IF input[s] = "0" /\ CharAt(input, s + 1) \in {"x", "X"}
                    THEN tok.Type = INT /\ IsHexScan(input, s, e)
                    ELSE /\ IsDecimalScan(input, s, e)
                         /\ tok.Type \in {INT, FLOAT}
                         /\ tok.Type = FLOAT
                                <=> Points(input, s, e)
                                        \cup ExponentMarkers(input, s, e) # {}
      ]_vars

\* The source 0xf.1 has been scanned: the hexadecimal integer 0xf, a point
\* and the integer 1.
C22_Witness ==
    /\ input = <<"0", "x", "f", ".", "1">>
    /\ Len(toks) = 4
    /\ toks[1].Type = INT
    /\ toks[1].Literal = <<"0", "x", "f">>
    /\ toks[2].Type = DOT
    /\ toks[3].Type = INT

(***************************************************************************)
(* Lexer runs over operator characters and one character no rule matches.  *)
(***************************************************************************)
OperatorAlphabet == {"=", "~", "<", ">", ":", ".", "$"}

OperatorInit ==
    /\ input \in SeqsUpTo(OperatorAlphabet, MaxSrcLen)
    /\ lx = NewLexer
    /\ toks = <<>>
    /\ lexState = "scan"
    /\ ParserIdle
    /\ CodecIdle

OperatorSpec == OperatorInit /\ [][LexNext]_vars

\* The operators spelled with the characters of OperatorAlphabet.
Operators ==
    {<<"=">>, <<"=", "=">>, <<"~", "=">>, <<"<">>, <<"<", "=">>,
     <<"<", "<">>, <<">">>, <<">", "=">>, <<">", ">">>, <<":">>,
     <<":", ":">>, <<".">>, <<".", ".">>, <<".", ".", ".">>}

\* The operators that the source spells from position s on.
OperatorsAt(in, s) ==
    {op \in Operators :
        s + Len(op) - 1 <= Len(in) /\ SubSeq(in, s, s + Len(op) - 1) = op}

LongestOperatorAt(in, s) ==
    CHOOSE op \in OperatorsAt(in, s) :
        \A other \in OperatorsAt(in, s) : Len(other) <= Len(op)

\* C23: a token that starts at an operator character is the longest
\* operator spelled there ('==', '~=', '<=', '>=', '<<', '>>', '::', '..'
\* and '...' are one token each); a character that starts no operator, a
\* '~' without '=' included, gives one ILLEGAL token whose text is that
\* character, and the scan goes on with the character behind it.
C23_LongestOperator ==
    [][(lexState = "scan" /\ currentChar(input, lx) \in OperatorAlphabet)
          => LET s == lx.pos + 1
                 tok == toks'[Len(toks')]
             IN  /\ Len(toks') = Len(toks) + 1
                 /\ lexState' = "scan"
                 /\ IF OperatorsAt(input, s) # {}
                    THEN /\ tok.Type = JoinChars(LongestOperatorAt(input, s))
                         /\ tok.Literal = LongestOperatorAt(input, s)
                         /\ lx'.pos = lx.pos + Len(tok.Literal)
                    ELSE /\ tok.Type = ILLEGAL
                         /\ tok.Literal = <<input[s]>>
                         /\ lx'.pos = lx.pos + 1
      ]_vars

\* The source ~~=.. has been scanned: an ILLEGAL '~', then '~=' and '..'.
C23_Witness ==
    /\ input = <<"~", "~", "=", ".", ".">>
    /\ Len(toks) = 4
    /\ toks[1].Type = ILLEGAL
    /\ toks[1].Literal = <<"~">>
    /\ toks[2].Type = NE
    /\ toks[3].Type = CONCAT
    /\ toks[4].Type = EOF

(***************************************************************************)
(* The cursor's bounds                                                     *)
(***************************************************************************)
MaxOffset == 2

FinalToken == tokens[Len(tokens)]

\* C28: at every step of a parse 0 <= pos <= len(tokens), pos does not
\* decrease and the token array stays as it is; currentToken, peekToken
\* with an offset of zero or more and advance give the final token, which
\* is EOF, when the index they are asked for is at or behind the end of the
\* array, and advance leaves pos alone once pos = len(tokens).
C28_CursorSaturates ==
    /\ [](/\ 0 <= pos
          /\ pos <= Len(tokens)
          /\ FinalToken.Type = EOF
          /\ pos >= Len(tokens)
                 => /\ currentToken(Cur) = FinalToken
                    /\ advance(Cur).pos = pos
          /\ \A offset \in 0..MaxOffset :
                 pos + offset >= Len(tokens)
                     => peekToken(Cur, offset) = FinalToken)
    /\ [][pos' >= pos /\ tokens' = tokens]_vars

\* The cursor stands behind the final token after a parse step moved it.
C28_Witness ==
    /\ parseState = "run"
    /\ Len(tokens) >= 2
    /\ pos = Len(tokens)

(***************************************************************************)
(* The cursor's helpers called one after another on the tokens of a short  *)
(* source, in any order and with any of a few kinds; ret holds what the    *)
(* last call returned.                                                     *)
(***************************************************************************)
MaxCursorErrors == 2

\* a = 1 );  f ( ) end;  and the empty source
CursorSources ==
    {SourceOf(<<IDENT, ASSIGN, INT, RPAREN>>),
     SourceOf(<<IDENT, LPAREN, RPAREN, END>>),
     <<>>}

\* Kinds that the parser passes to expect.
ExpectedKinds == {IDENT, ASSIGN, RPAREN, END}

\* Kinds that the parser passes to check.
CheckedKinds == {IDENT, ASSIGN, RPAREN, END, EOF}

CursorInit ==
    /\ input \in CursorSources
    /\ lx = NewLexer
    /\ toks = <<>>
    /\ lexState = "idle"
    /\ tokens = TokensOf(input)
    /\ pos = 0
    /\ errors = <<>>
    /\ stack = <<>>
    /\ ret = Null
    /\ program = <<>>
    /\ perr = Null
    /\ parseState = "idle"
    /\ CodecIdle

Expect ==
    /\ parseState = "idle"
    /\ Len(errors) < MaxCursorErrors
    /\ \E t \in ExpectedKinds :
           LET r == expect(Cur, t)
           IN  /\ pos' = r.c.pos
               /\ errors' = r.c.errors
               /\ ret' = [kind |-> "expect", t |-> t, tok |-> r.tok]
    /\ UNCHANGED <<tokens, stack, program, perr, parseState, lexVars, codecVars>>

Check ==
    /\ parseState = "idle"
    /\ \E t \in CheckedKinds :
           ret' = [kind |-> "check", t |-> t, ok |-> check(Cur, t)]
    /\ UNCHANGED <<tokens, pos, errors, stack, program, perr, parseState,
                   lexVars, codecVars>>

Match ==
    /\ parseState = "idle"
    /\ \E t \in CheckedKinds :
           LET r == match(Cur, t)
           IN  /\ pos' = r.c.pos
               /\ errors' = r.c.errors
               /\ ret' = [kind |-> "match", t |-> t, ok |-> r.ok]
    /\ UNCHANGED <<tokens, stack, program, perr, parseState, lexVars, codecVars>>

Advance ==
    /\ parseState = "idle"
    /\ pos' = advance(Cur).pos
    /\ errors' = advance(Cur).errors
    /\ ret' = [kind |-> "advance", tok |-> currentToken(Cur)]
    /\ UNCHANGED <<tokens, stack, program, perr, parseState, lexVars, codecVars>>

CursorNext == Expect \/ Check \/ Match \/ Advance

CursorSpec == CursorInit /\ [][CursorNext]_vars

\* C27: expect(t) on a current token of kind t returns that token and moves
\* the cursor one token on; on any other token it appends the one
\* diagnostic 'expected <t> but got <kind> at line <n>', leaves pos and the
\* tokens as they are and returns a token of kind t with nothing else in
\* it.  check changes nothing.  match changes the cursor only when it
\* returns true.
C27_ExpectCheckMatch ==
    [][LET cur == IF pos >= Len(tokens) THEN tokens[Len(tokens)]
                  ELSE tokens[pos + 1]
       IN  /\ ret'.kind = "expect"
              => IF cur.Type = ret'.t
                 THEN /\ ret'.tok = cur
                      /\ pos' = pos + 1
                      /\ errors' = errors
                      /\ tokens' = tokens
                 ELSE /\ ret'.tok = [Type |-> ret'.t, Literal |-> <<>>,
                                     Line |-> 0, Column |-> 0]
                      /\ pos' = pos
                      /\ errors' = Append(errors,
                                          "expected " \o ret'.t \o " but got "
                                          \o cur.Type \o " at line "
                                          \o ToString(cur.Line))
                      /\ tokens' = tokens
           /\ ret'.kind = "check"
              => /\ ret'.ok = (cur.Type = ret'.t)
                 /\ <<tokens, pos, errors>>' = <<tokens, pos, errors>>
           /\ ret'.kind = "match"
              => /\ <<tokens, pos, errors>>' # <<tokens, pos, errors>>
                        => ret'.ok
                 /\ ret'.ok => cur.Type = ret'.t
      ]_vars

\* expect(")") has just been called on the '=' of a = 1 ): it returned the
\* placeholder and recorded the diagnostic, the cursor stands where it was.
C27_Witness ==
    /\ ret = [kind |-> "expect", t |-> RPAREN, tok |-> placeholder(RPAREN)]
    /\ pos = 1
    /\ errors = <<"expected ) but got = at line 2">>

(***************************************************************************)
(* Assignments to a member and to an index                                 *)
(***************************************************************************)
\* The bases of the index targets: t, f(), a.b, t[1].
IndexBases ==
    {<<IDENT>>, <<IDENT, LPAREN, RPAREN>>, <<IDENT, DOT, IDENT>>,
     <<IDENT, LBRACKET, INT, RBRACKET>>}

\* The tokens are  a . b = v  with v a single identifier, number or string.
IsMemberAssignment ==
    /\ Len(tokens) = 6
    /\ StartsWith(<<IDENT, DOT, IDENT, ASSIGN>>)
    /\ IsAtom(tokens[5])

\* The tokens are  base [ k ] = v  with k and v a single identifier, number
\* or string each.
IsIndexAssignmentOn(base) ==
    /\ Len(tokens) = Len(base) + 6
    /\ StartsWith(base \o <<LBRACKET>>)
    /\ IsAtom(tokens[Len(base) + 2])
    /\ tokens[Len(base) + 3].Type = RBRACKET
    /\ tokens[Len(base) + 4].Type = ASSIGN
    /\ IsAtom(tokens[Len(base) + 5])

\* The statement is an assignment of the value token v to the one name n
\* and holds nothing else.
AssignsToName(stmt, n, v) ==
    /\ stmt.kind = "AssignmentStatement"
    /\ DOMAIN stmt = {"kind", "Names", "Values", "TokenLine"}
    /\ Len(stmt.Names) = 1
    /\ DOMAIN stmt.Names[1] = {"kind", "Name", "TokenLine"}
    /\ stmt.Names[1].Name = n
    /\ Len(stmt.Values) = 1
    /\ Leaf(stmt.Values[1], v)

\* C29: the statement parsed from  a . b = v  is an assignment with the one
\* name "a.b"; the statement parsed from  base [ k ] = v  is an assignment
\* with one name, the base's name when the base is an identifier and the
\* empty string when it is not, and with nothing of the index k in it.
C29_SynthesizedTargetName ==
    Returned =>
        /\ IsMemberAssignment
               => /\ Len(program) = 1
                  /\ AssignsToName(program[1],
                                   tokens[1].Literal \o <<".">>
                                       \o tokens[3].Literal,
                                   tokens[5])
        /\ \A base \in IndexBases :
               IsIndexAssignmentOn(base)
                   => /\ Len(program) = 1
                      /\ AssignsToName(program[1],
                                       IF base = <<IDENT>>
                                       THEN tokens[1].Literal ELSE <<>>,
                                       tokens[Len(base) + 5])

\* a.b[c] = 1 has been parsed: the one target name is the empty string.
C29_Witness ==
    /\ Returned
    /\ IsIndexAssignmentOn(<<IDENT, DOT, IDENT>>)
    /\ Len(program) = 1
    /\ program[1].Names[1].Name = <<>>

(***************************************************************************)
(* Go values as the Decoder and the Encoder see them through reflect.  A   *)
(* type is [Kind, ...]; a string is a sequence of characters, a struct the *)
(* sequence of its fields' values, a nil slice or map is Null.  An         *)
(* interface{} value is Null or [t, v]: its dynamic type and its value.    *)
(***************************************************************************)
StringType == [Kind |-> "string"]
IntType == [Kind |-> "int"]
Float64Type == [Kind |-> "float64"]
BoolType == [Kind |-> "bool"]
InterfaceType == [Kind |-> "interface"]
SliceOf(elem) == [Kind |-> "slice", Elem |-> elem]
MapOf(elem) == [Kind |-> "map", Elem |-> elem]
StructOf(fields) == [Kind |-> "struct", Fields |-> fields]

\* reflect.StructField: the name, the value of the `lua` tag ("" without
\* one) and the type.
StructField(name, tag, type) == [Name |-> name, Tag |-> tag, Type |-> type]

SimpleConfig ==
    StructOf(<<StructField(<<"N", "a", "m", "e">>, <<"n", "a", "m", "e">>,
                           StringType),
               StructField(<<"P", "o", "r", "t">>, <<"p", "o", "r", "t">>,
                           IntType)>>)

InnerConfig ==
    StructOf(<<StructField(<<"V", "a", "l", "u", "e">>,
                           <<"v", "a", "l", "u", "e">>, StringType)>>)

NestedConfig ==
    StructOf(<<StructField(<<"O", "u", "t", "e", "r">>,
                           <<"o", "u", "t", "e", "r">>, InnerConfig)>>)

\* The Config of the README: the second field has no tag.
Config ==
    StructOf(<<StructField(<<"A", "p", "p", "N", "a", "m", "e">>,
                           <<"a", "p", "p", "_", "n", "a", "m", "e">>,
                           StringType),
               StructField(<<"N", "a", "m", "e">>, <<>>, StringType)>>)

\* A struct with a slice of integers, one of the supported types.
SliceConfig ==
    StructOf(<<StructField(<<"I", "t", "e", "m", "s">>,
                           <<"i", "t", "e", "m", "s">>, SliceOf(IntType))>>)

RECURSIVE Zero(_)
Zero(T) ==
    CASE T.Kind = "string" -> <<>>
      [] T.Kind = "int" -> 0
      [] T.Kind = "float64" -> FloatZero
      [] T.Kind = "bool" -> FALSE
      [] T.Kind = "struct" -> [i \in 1..Len(T.Fields) |-> Zero(T.Fields[i].Type)]
      [] OTHER -> Null

Int64(n) == [t |-> "int64", v |-> n]
Float64(x) == [t |-> "float64", v |-> x]
GoString(s) == [t |-> "string", v |-> s]
GoBool(b) == [t |-> "bool", v |-> b]
\* map[string]interface{}: the keys in the order they were first stored,
\* and the value of each.
GoMap(keys, vals) == [t |-> "map", keys |-> keys, vals |-> vals]

TypeOf(val) == IF val = Null THEN "nil" ELSE val.t

UpperLetters ==
    <<"A", "B", "C", "D", "E", "F", "G", "H", "I", "J", "K", "L", "M",
      "N", "O", "P", "Q", "R", "S", "T", "U", "V", "W", "X", "Y", "Z">>
LowerLetters ==
    <<"a", "b", "c", "d", "e", "f", "g", "h", "i", "j", "k", "l", "m",
      "n", "o", "p", "q", "r", "s", "t", "u", "v", "w", "x", "y", "z">>

ToLower(s) ==
    [i \in 1..Len(s) |->
        IF \E k \in 1..26 : UpperLetters[k] = s[i]
        THEN LowerLetters[CHOOSE k \in 1..26 : UpperLetters[k] = s[i]]
        ELSE s[i]]

\* A field can be set when its name is exported.
CanSet(name) == \E k \in 1..26 : UpperLetters[k] = name[1]

\* The index of the first element of s that satisfies Test, or 0.
FirstIndex(s, Test(_)) ==
    IF \E i \in 1..Len(s) : Test(s[i])
    THEN CHOOSE i \in 1..Len(s) :
             Test(s[i]) /\ \A j \in 1..(i - 1) : ~Test(s[j])
    ELSE 0

(***************************************************************************)
(* Decoder                                                                 *)
(***************************************************************************)
\* The deepest nesting of evalExpression calls the model follows; a call
\* nested deeper stands for the recursion that exhausts the stack.
MaxCallDepth == 8

\* What an evaluation leaves when its recursion does not end.
StackOverflow == [t |-> "stack overflow"]

getTopLevelAssignments(statements) ==
    SelectSeq(statements, LAMBDA stmt : stmt.kind = "AssignmentStatement")

\* The name of the first field whose tag, or lowercased name without a tag,
\* is luaName; "" when there is none.
findFieldByTag(T, luaName) ==
    LET hit(field) ==
            (IF field.Tag = <<>> THEN ToLower(field.Name) ELSE field.Tag)
                = luaName
        i == FirstIndex(T.Fields, hit)
    IN  IF i = 0 THEN <<>> ELSE T.Fields[i].Name

\* reflect's FieldByName: the index of the field of that name, 0 when the
\* Value it returns is not valid.
FieldByName(T, name) == FirstIndex(T.Fields, LAMBDA field : field.Name = name)

isNumber(v) == TypeOf(v) \in {"int64", "float64"}

isString(v) == TypeOf(v) = "string"

toFloat64(v) ==
    IF TypeOf(v) = "float64" THEN v.v
    ELSE IF TypeOf(v) = "int64" THEN normFloat(v.v, 0)
    ELSE FloatZero

RECURSIVE Pow10(_)
Pow10(n) == IF n = 0 THEN 1 ELSE 10 * Pow10(n - 1)

\* int64(x): the float truncated toward zero.
Truncate(x) ==
    IF x.e >= 0 THEN x.m * Pow10(x.e)
    ELSE IF x.m >= 0 THEN x.m \div Pow10(0 - x.e)
    ELSE 0 - ((0 - x.m) \div Pow10(0 - x.e))

toInt64(v) ==
    IF TypeOf(v) = "int64" THEN [n |-> v.v, ok |-> TRUE]
    ELSE IF TypeOf(v) = "float64" THEN [n |-> Truncate(v.v), ok |-> TRUE]
    ELSE [n |-> 0, ok |-> FALSE]

toString(v) == IF TypeOf(v) = "string" THEN v.v ELSE <<>>

\* Floating-point arithmetic, exact on the decimal fractions of the model.
FloatAdd(x, y) ==
    LET e == IF x.e < y.e THEN x.e ELSE y.e
    IN  normFloat(x.m * Pow10(x.e - e) + y.m * Pow10(y.e - e), e)

FloatNeg(x) == [m |-> 0 - x.m, e |-> x.e]

FloatMul(x, y) == normFloat(x.m * y.m, x.e + y.e)

FloatLess(x, y) == FloatAdd(x, FloatNeg(y)).m < 0

\* strconv.FormatFloat(x, 'f', -1, 64) of a float that is not negative.
FormatFloat(x) ==
    IF x.e >= 0 THEN IF x.m = 0 THEN <<"0">>
                     ELSE Itoa(x.m) \o [i \in 1..x.e |-> "0"]
    ELSE LET digits == Itoa(x.m)
             n == 0 - x.e
         IN  IF Len(digits) > n
             THEN SubSeq(digits, 1, Len(digits) - n) \o <<".">>
                      \o SubSeq(digits, Len(digits) - n + 1, Len(digits))
             ELSE <<"0", ".">> \o [i \in 1..(n - Len(digits)) |-> "0"]
                      \o digits

\* result[key] = value
MapStore(m, key, value) ==
    IF \E i \in 1..Len(m.keys) : m.keys[i] = key
    THEN GoMap(m.keys,
               [i \in 1..Len(m.keys) |->
                   IF m.keys[i] = key THEN value ELSE m.vals[i]])
    ELSE GoMap(Append(m.keys, key), Append(m.vals, value))

RECURSIVE evalExpression(_, _, _)
RECURSIVE evalTableFields(_, _, _, _, _)

\* The first top-level assignment of one value to the one name `name`,
\* evaluated; nil when there is none.
findVariable(statements, name, depth) ==
    LET assignments == getTopLevelAssignments(statements)
        i == FirstIndex(assignments,
                        LAMBDA assign :
                            /\ Len(assign.Names) = 1
                            /\ assign.Names[1].Name = name
                            /\ Len(assign.Values) = 1)
    IN  IF i = 0 THEN Null
        ELSE evalExpression(statements, assignments[i].Values[1], depth)

evalExpressionValue(statements, expr, depth) ==
    evalExpression(statements, expr, depth)

\* The key of a table field as evalTableLiteral reads it, "" without one.
fieldKey(field) ==
    IF field.Key = Null THEN <<>>
    ELSE IF field.Key.kind = "Identifier" THEN field.Key.Name
    ELSE IF field.Key.kind = "StringLiteral" THEN field.Key.Value
    ELSE IF field.Key.kind = "NumberLiteral" THEN FormatFloat(field.Key.Value)
    ELSE IF field.Key.kind = "TableIndex"
    THEN IF field.Key.Key.kind = "Identifier" THEN field.Key.Key.Name
         ELSE IF field.Key.Key.kind = "StringLiteral"
         THEN field.Key.Key.Value
         ELSE <<>>
    ELSE <<>>

\* The loop of evalTableLiteral from field i on.
evalTableFields(statements, fields, i, result, depth) ==
    IF i > Len(fields) THEN result
    ELSE LET key == fieldKey(fields[i])
             value == evalExpressionValue(statements, fields[i].Value, depth)
         IN  IF value = StackOverflow THEN StackOverflow
             ELSE evalTableFields(
                      statements, fields, i + 1,
                      MapStore(result,
                               IF key # <<>> THEN key
                               ELSE Itoa(Len(result.keys)),
                               value),
                      depth)

evalTableLiteral(statements, t, depth) ==
    evalTableFields(statements, t.Fields, 1, GoMap(<<>>, <<>>), depth)

\* reflect.DeepEqual of two interface{} values.
DeepEqual(x, y) == TypeOf(x) = TypeOf(y) /\ x = y

evalBinaryExpression(statements, e, depth) ==
    LET left == evalExpressionValue(statements, e.Left, depth)
        right == evalExpressionValue(statements, e.Right, depth)
        numbers == isNumber(left) /\ isNumber(right)
        l == toFloat64(left)
        r == toFloat64(right)
    IN  IF left = StackOverflow \/ right = StackOverflow THEN StackOverflow
        ELSE IF e.Operator = PLUS /\ numbers THEN Float64(FloatAdd(l, r))
        ELSE IF e.Operator = PLUS /\ isString(left) /\ isString(right)
        THEN GoString(toString(left) \o toString(right))
        ELSE IF e.Operator = MINUS /\ numbers
        THEN Float64(FloatAdd(l, FloatNeg(r)))
        ELSE IF e.Operator = STAR /\ numbers THEN Float64(FloatMul(l, r))
        ELSE IF e.Operator = SLASH /\ numbers
        THEN [t |-> "float64", quotient |-> <<l, r>>]
        ELSE IF e.Operator = EQ THEN GoBool(DeepEqual(left, right))
        ELSE IF e.Operator = NE THEN GoBool(~DeepEqual(left, right))
        ELSE IF e.Operator = LT /\ numbers THEN GoBool(FloatLess(l, r))
        ELSE IF e.Operator = LE /\ numbers THEN GoBool(~FloatLess(r, l))
        ELSE IF e.Operator = GT /\ numbers THEN GoBool(FloatLess(r, l))
        ELSE IF e.Operator = GE /\ numbers THEN GoBool(~FloatLess(l, r))
        ELSE Null

evalExpression(statements, expr, depth) ==
    IF depth > MaxCallDepth THEN StackOverflow
    ELSE IF expr.kind = "Identifier"
    THEN findVariable(statements, expr.Name, depth + 1)
    ELSE IF expr.kind = "NumberLiteral"
    THEN IF expr.IsInt THEN Int64(expr.IntValue) ELSE Float64(expr.Value)
    ELSE IF expr.kind = "StringLiteral" THEN GoString(expr.Value)
    ELSE IF expr.kind = "BooleanLiteral" THEN GoBool(expr.Value)
    ELSE IF expr.kind = "NilLiteral" THEN Null
    ELSE IF expr.kind = "TableLiteral"
    THEN evalTableLiteral(statements, expr, depth + 1)
    ELSE IF expr.kind = "BinaryExpression"
    THEN evalBinaryExpression(statements, expr, depth + 1)
    ELSE Null

\* The elements of s in reverse order.
Reverse(s) == [i \in 1..Len(s) |-> s[Len(s) + 1 - i]]

RECURSIVE setValue(_, _, _, _)
RECURSIVE setFields(_, _, _, _, _, _)

\* The loop of the Struct arm of setValue over the keys of the map, taken
\* in the order `order` gives their indices: the struct with the fields a
\* key names set from the key's value.
setFields(T, old, m, order, k, reversed) ==
    IF k > Len(order) THEN old
    ELSE LET key == m.keys[order[k]]
             tagged == findFieldByTag(T, key)
             f == FieldByName(T, IF tagged = <<>> THEN key ELSE tagged)
             new == IF f = 0 \/ ~CanSet(T.Fields[f].Name) THEN old
                    ELSE [old EXCEPT ![f] = setValue(T.Fields[f].Type, old[f],
                                                     m.vals[order[k]],
                                                     reversed)]
         IN  setFields(T, new, m, order, k + 1, reversed)

\* setValue on a field that can be set: the value of the field afterwards.
\* Go ranges over a map in an order of its own; the model takes the keys in
\* the order they were stored or, when `reversed`, in the opposite order.
setValue(T, old, val, reversed) ==
    CASE T.Kind = "string" -> IF TypeOf(val) = "string" THEN val.v ELSE old
      [] T.Kind = "int" -> IF toInt64(val).ok THEN toInt64(val).n ELSE old
      [] T.Kind = "float64" -> toFloat64(val)
      [] T.Kind = "bool" -> IF TypeOf(val) = "bool" THEN val.v ELSE old
      [] T.Kind = "slice" ->
             IF TypeOf(val) = "[]interface{}"
             THEN Slice([i \in 1..Len(val.v) |->
                            setValue(T.Elem, Zero(T.Elem), val.v[i],
                                     reversed)])
             ELSE old
      [] T.Kind = "map" ->
             IF TypeOf(val) = "map"
             THEN GoMap(val.keys,
                        [i \in 1..Len(val.keys) |->
                            setValue(T.Elem, Zero(T.Elem), val.vals[i],
                                     reversed)])
             ELSE old
      [] T.Kind = "struct" ->
             IF TypeOf(val) = "map"
             THEN setFields(T, old, val,
                            IF reversed
                            THEN Reverse([i \in 1..Len(val.keys) |-> i])
                            ELSE [i \in 1..Len(val.keys) |-> i],
                            1, reversed)
             ELSE old
      [] OTHER -> old

\* The loop of decode from assignment i on: the struct as the assignments
\* leave it, and whether an evaluation ran out of stack.
RECURSIVE decodeAssignments(_, _, _, _, _)
decodeAssignments(statements, T, value, i, reversed) ==
    LET assignments == getTopLevelAssignments(statements)
    IN  IF i > Len(assignments) THEN [overflow |-> FALSE, value |-> value]
        ELSE LET assign == assignments[i]
                 skip == decodeAssignments(statements, T, value, i + 1,
                                           reversed)
             IN  IF Len(assign.Names) # 1 \/ Len(assign.Values) # 1 THEN skip
                 ELSE LET name == assign.Names[1].Name
                          tagged == findFieldByTag(T, name)
                          f == FieldByName(T, IF tagged = <<>> THEN name
                                              ELSE tagged)
                          val == evalExpression(statements, assign.Values[1],
                                                1)
                      IN  IF f = 0 THEN skip
                          ELSE IF val = StackOverflow
                          THEN [overflow |-> TRUE, value |-> value]
                          ELSE IF ~CanSet(T.Fields[f].Name) THEN skip
                          ELSE decodeAssignments(
                                   statements, T,
                                   [value EXCEPT ![f] =
                                       setValue(T.Fields[f].Type, value[f],
                                                val, reversed)],
                                   i + 1, reversed)

\* fmt.Errorf("luar: expected pointer, got %v", rv.Kind())
expectedPointer(T) ==
    [kind |-> "error", text |-> "luar: expected pointer, got " \o T.Kind]

\* decode(v) with v a value of type T or a pointer to one: the error it
\* returns and the value afterwards, or that it ran out of stack.
decode(statements, ptr, T, value, reversed) ==
    IF ~ptr
    THEN [overflow |-> FALSE, err |-> expectedPointer(T), value |-> value]
    ELSE LET after == decodeAssignments(statements, T, value, 1, reversed)
         IN  [overflow |-> after.overflow, err |-> Null,
              value |-> after.value]

(***************************************************************************)
(* Encoder                                                                 *)
(***************************************************************************)
BEL == "BEL"          \* rune 7

\* fmt's %q of one character of a string.
quoted(ch) ==
    CASE ch = DQUOTE -> <<BACKSLASH, DQUOTE>>
      [] ch = BACKSLASH -> <<BACKSLASH, BACKSLASH>>
      [] ch = NL -> <<BACKSLASH, "n">>
      [] ch = TAB -> <<BACKSLASH, "t">>
      [] ch = CR -> <<BACKSLASH, "r">>
      [] ch = BEL -> <<BACKSLASH, "a">>
      [] ch = NUL -> <<BACKSLASH, "x", "0", "0">>
      [] OTHER -> <<ch>>

RECURSIVE quoteFrom(_, _)
quoteFrom(s, i) ==
    IF i > Len(s) THEN <<>> ELSE quoted(s[i]) \o quoteFrom(s, i + 1)

\* fmt.Sprintf("%q", s)
Quote(s) == <<DQUOTE>> \o quoteFrom(s, 1) \o <<DQUOTE>>

\* fmt.Sprintf("%d", n)
FormatInt(n) == IF n < 0 THEN <<"-">> \o Itoa(0 - n) ELSE Itoa(n)

\* The tag a struct is written with: the `lua` tag or the lowercased name.
luaTag(field) == IF field.Tag = <<>> THEN ToLower(field.Name) ELSE field.Tag

RECURSIVE encodeValue(_, _)
RECURSIVE encodeItems(_, _, _)
RECURSIVE encodeEntries(_, _, _)
RECURSIVE encodeStructFields(_, _, _)

\* The loop of the Slice arm of encodeValue from element i on.
encodeItems(T, items, i) ==
    IF i > Len(items) THEN <<>>
    ELSE (IF i > 1 THEN <<",", SP>> ELSE <<>>) \o encodeValue(T, items[i])
             \o encodeItems(T, items, i + 1)

\* The loop of the Map arm of encodeValue from entry i on: getLuaTag gives
\* "" for a key that is a string, so nothing stands before the " = ".
encodeEntries(T, vals, i) ==
    IF i > Len(vals) THEN <<>>
    ELSE (IF i > 1 THEN <<",", SP>> ELSE <<>>) \o <<SP, "=", SP>>
             \o encodeValue(T, vals[i]) \o encodeEntries(T, vals, i + 1)

\* The loop of encodeStruct from field i on.
encodeStructFields(T, v, i) ==
    IF i > Len(T.Fields) THEN <<>>
    ELSE (IF i > 1 THEN <<",", SP>> ELSE <<>>) \o luaTag(T.Fields[i])
             \o <<SP, "=", SP>> \o encodeValue(T.Fields[i].Type, v[i])
             \o encodeStructFields(T, v, i + 1)

encodeStruct(T, v) == <<"{">> \o encodeStructFields(T, v, 1) \o <<"}">>

\* What encodeValue writes for a value v of type T.  A float is written
\* without an exponent, as %g writes the floats of the model; a map is
\* written with getLuaTag's empty key before every value.
encodeValue(T, v) ==
    CASE T.Kind = "string" -> Quote(v)
      [] T.Kind = "int" -> FormatInt(v)
      [] T.Kind = "float64" ->
             IF v.m < 0 THEN <<"-">> \o FormatFloat(FloatNeg(v))
             ELSE FormatFloat(v)
      [] T.Kind = "bool" -> IF v THEN <<"t", "r", "u", "e">>
                            ELSE <<"f", "a", "l", "s", "e">>
      [] T.Kind = "slice" ->
             IF v = Null THEN <<"n", "i", "l">>
             ELSE <<"{">> \o encodeItems(T.Elem, v.items, 1) \o <<"}">>
      [] T.Kind = "map" ->
             IF v = Null THEN <<"{", "}">>
             ELSE <<"{">> \o encodeEntries(T.Elem, v.vals, 1) \o <<"}">>
      [] T.Kind = "struct" -> encodeStruct(T, v)
      [] OTHER -> <<"n", "i", "l">>

\* The loop of encodeStructAsAssignments from field i on.
RECURSIVE encodeStructAsAssignments(_, _, _)
encodeStructAsAssignments(T, v, i) ==
    IF i > Len(T.Fields) THEN <<>>
    ELSE luaTag(T.Fields[i]) \o <<SP, "=", SP>>
             \o encodeValue(T.Fields[i].Type, v[i]) \o <<NL>>
             \o encodeStructAsAssignments(T, v, i + 1)

\* Encode(v) for a value v of type T: what it writes.
Encode(T, v) ==
    IF T.Kind = "struct" THEN encodeStructAsAssignments(T, v, 1)
    ELSE encodeValue(T, v)

(***************************************************************************)
(* Marshal and Unmarshal as a state machine.  A round trip is Marshal of   *)
(* a struct value followed by Unmarshal of what it wrote; Unmarshal is     *)
(* NewDecoder, which runs the parser on the source, followed by Decode     *)
(* with a destination.                                                     *)
(***************************************************************************)
MaxAssigns == 2
MaxItems == 3
MaxStringLen == 2
MaxInt == 2

\* The statements of the sources given to Unmarshal, a line each.
AssignmentForms ==
    {\* name = "s"
     <<"n", "a", "m", "e", SP, "=", SP, DQUOTE, "s", DQUOTE, NL>>,
     \* port = 5
     <<"p", "o", "r", "t", SP, "=", SP, "5", NL>>,
     \* port = port
     <<"p", "o", "r", "t", SP, "=", SP, "p", "o", "r", "t", NL>>,
     \* name = port
     <<"n", "a", "m", "e", SP, "=", SP, "p", "o", "r", "t", NL>>,
     \* port = name
     <<"p", "o", "r", "t", SP, "=", SP, "n", "a", "m", "e", NL>>,
     \* Name = "t"
     <<"N", "a", "m", "e", SP, "=", SP, DQUOTE, "t", DQUOTE, NL>>,
     \* x = 5
     <<"x", SP, "=", SP, "5", NL>>,
     \* x = 6
     <<"x", SP, "=", SP, "6", NL>>,
     \* port = x
     <<"p", "o", "r", "t", SP, "=", SP, "x", NL>>}

RECURSIVE AssignmentLists(_)
AssignmentLists(n) ==
    IF n = 0 THEN {<<>>}
    ELSE LET shorter == AssignmentLists(n - 1)
         IN  shorter \cup {s \o f : s \in shorter, f \in AssignmentForms}

\* 1, 2, ..., n with ", " between them
RECURSIVE itemList(_)
itemList(n) ==
    IF n = 1 THEN <<"1">>
    ELSE itemList(n - 1) \o <<",", SP, DigitChar(n)>>

\* items = {1, ..., n} for n from 1 to MaxItems
SliceSources ==
    {<<"i", "t", "e", "m", "s", SP, "=", SP, "{">> \o itemList(n) \o <<"}">>
        : n \in 1..MaxItems}

SourceExamples ==
    {\* port = -5
     <<"p", "o", "r", "t", SP, "=", SP, "-", "5">>,
     \* port = 1 + 2
     <<"p", "o", "r", "t", SP, "=", SP, "1", SP, "+", SP, "2">>,
     \* outer = {value = "x"}
     <<"o", "u", "t", "e", "r", SP, "=", SP, "{", "v", "a", "l", "u", "e",
       SP, "=", SP, DQUOTE, "x", DQUOTE, "}">>,
     \* app_name = "s"; name = "t"
     <<"a", "p", "p", "_", "n", "a", "m", "e", SP, "=", SP, DQUOTE, "s",
       DQUOTE, NL, "n", "a", "m", "e", SP, "=", SP, DQUOTE, "t", DQUOTE>>,
     \* Name = "t"; name = "s"
     <<"N", "a", "m", "e", SP, "=", SP, DQUOTE, "t", DQUOTE, NL, "n", "a",
       "m", "e", SP, "=", SP, DQUOTE, "s", DQUOTE>>,
     \* outer = {value = "x", Value = "y"}
     <<"o", "u", "t", "e", "r", SP, "=", SP, "{", "v", "a", "l", "u", "e",
       SP, "=", SP, DQUOTE, "x", DQUOTE, ",", SP, "V", "a", "l", "u", "e",
       SP, "=", SP, DQUOTE, "y", DQUOTE, "}">>,
     \* x = 5; x = 6; port = x
     <<"x", SP, "=", SP, "5", NL, "x", SP, "=", SP, "6", NL, "p", "o", "r",
       "t", SP, "=", SP, "x">>,
     \* x = 5; port = x; x = 6
     <<"x", SP, "=", SP, "5", NL, "p", "o", "r", "t", SP, "=", SP, "x", NL,
       "x", SP, "=", SP, "6">>,
     \* port = x; x = y; y = x
     <<"p", "o", "r", "t", SP, "=", SP, "x", NL, "x", SP, "=", SP, "y", NL,
       "y", SP, "=", SP, "x">>,
     \* items = {}
     <<"i", "t", "e", "m", "s", SP, "=", SP, "{", "}">>,
     \* items = {n = 1, 2}
     <<"i", "t", "e", "m", "s", SP, "=", SP, "{", "n", SP, "=", SP, "1",
       ",", SP, "2", "}">>}

UnmarshalSources ==
    AssignmentLists(MaxAssigns) \cup SliceSources \cup SourceExamples

\* A destination: v itself or a pointer to it, its type and its value.
Destination(ptr, T, value) == [ptr |-> ptr, type |-> T, value |-> value]

Destinations ==
    {Destination(TRUE, SimpleConfig, Zero(SimpleConfig)),
     Destination(TRUE, SimpleConfig, <<<<"o", "l", "d">>, 7>>),
     Destination(FALSE, SimpleConfig, <<<<"o", "l", "d">>, 7>>),
     Destination(TRUE, Config, <<<<"o", "l", "d">>, <<"o", "l", "d">>>>),
     Destination(TRUE, SliceConfig, Zero(SliceConfig)),
     Destination(TRUE, NestedConfig, Zero(NestedConfig))}

\* The characters of the strings given to Marshal.
StringChars == {"a", DQUOTE, BACKSLASH, NL, BEL}

\* The SimpleConfig values given to Marshal.
RoundTripValues ==
    {[type |-> SimpleConfig, value |-> <<name, port>>] :
        name \in SeqsUpTo(StringChars, MaxStringLen),
        port \in (0 - MaxInt)..MaxInt}

\* The destinations of a round trip: a zero SimpleConfig and one in use.
RoundTripDestinations ==
    {Destination(TRUE, SimpleConfig, Zero(SimpleConfig)),
     Destination(TRUE, SimpleConfig, <<<<"o", "l", "d">>, 7>>)}

CodecInit ==
    /\ \/ /\ original \in RoundTripValues
          /\ input = <<>>
          /\ codecState = "marshal"
       \/ /\ original = Null
          /\ input \in UnmarshalSources
          /\ codecState = "unmarshal"
    /\ decoded = Null
    /\ err = Null
    /\ lx = NewLexer
    /\ toks = <<>>
    /\ lexState = "idle"
    /\ ParserIdle

\* Marshal(original): the bytes it returns are the source of the Unmarshal
\* that follows.
Marshal ==
    /\ codecState = "marshal"
    /\ input' = Encode(original.type, original.value)
    /\ codecState' = "unmarshal"
    /\ UNCHANGED <<lx, toks, lexState, parseVars, original, decoded, err>>

\* NewDecoder: NewParser on the source, and Parse called.
NewDecoder ==
    /\ codecState = "unmarshal"
    /\ tokens' = TokensOf(input)
    /\ pos' = 0
    /\ errors' = <<>>
    /\ stack' = <<Frame("Parse")>>
    /\ parseState' = "run"
    /\ codecState' = "parse"
    /\ UNCHANGED <<ret, program, perr, lexVars, original, decoded, err>>

\* Decode(v) once Parse has returned, whatever error it returned.
Decode ==
    /\ codecState = "parse"
    /\ parseState = "done"
    /\ \E dest \in IF original = Null THEN Destinations
                   ELSE RoundTripDestinations,
          reversed \in BOOLEAN :
           LET r == decode(program, dest.ptr, dest.type, dest.value, reversed)
           IN  IF r.overflow
               THEN /\ decoded' = [ptr |-> dest.ptr, type |-> dest.type,
                                   before |-> dest.value, after |-> r.value]
                    /\ err' = Null
                    /\ codecState' = "stack overflow"
               ELSE /\ decoded' = [ptr |-> dest.ptr, type |-> dest.type,
                                   before |-> dest.value, after |-> r.value]
                    /\ err' = r.err
                    /\ codecState' = "done"
    /\ UNCHANGED <<parseVars, lexVars, original>>

\* The parse functions that the sources of this machine reach.
CodecNext ==
    \/ Marshal
    \/ NewDecoder
    \/ Decode
    \/ Parse
    \/ parseStatement
    \/ parseAssignmentOrExpression
    \/ parseExpressionList
    \/ parseExpression
    \/ parseOr
    \/ parseAnd
    \/ parseComparison
    \/ parseConcat
    \/ parseBitwiseOr
    \/ parseBitwiseXor
    \/ parseBitwiseAnd
    \/ parseAddSub
    \/ parseMulDivMod
    \/ parseUnary
    \/ parsePow
    \/ parsePostfix
    \/ parsePrimary
    \/ parseTableLiteral
    \/ parseTableField

CodecSpec == CodecInit /\ [][CodecNext]_vars

\* Unmarshal has returned.
Unmarshalled == codecState = "done"

\* Every parse of this machine goes on until Parse returns.
CodecParsesReturn ==
    codecState = "parse" => (ENABLED CodecNext) /\ parseState # "panic"

(***************************************************************************)
(* Marshal and Unmarshal: the claims                                       *)
(***************************************************************************)
\* C24: when Marshal has written a SimpleConfig value, whatever its string
\* and its integer, negative ones included, and Unmarshal has read what it
\* wrote into a SimpleConfig, Unmarshal has returned nil and the
\* destination equals the value field by field.
C24_RoundTrip ==
    (Unmarshalled /\ original # Null)
        => /\ err = Null
           /\ \A f \in 1..Len(original.type.Fields) :
                  decoded.after[f] = original.value[f]

\* The top-level assignments of one target and one value, in source order.
SingleAssignments ==
    SelectSeq(program,
              LAMBDA stmt : /\ stmt.kind = "AssignmentStatement"
                            /\ Len(stmt.Names) = 1
                            /\ Len(stmt.Values) = 1)

\* The positions, among them, of the assignments whose target is the 'lua'
\* tag of the field or, the field having no tag, its lowercased name.
MatchingAssignments(field) ==
    {i \in 1..Len(SingleAssignments) :
        SingleAssignments[i].Names[1].Name
            = (IF field.Tag # <<>> THEN field.Tag ELSE ToLower(field.Name))}

Greatest(S) == CHOOSE n \in S : \A m \in S : m <= n

\* The field holds the literal of the last assignment that matches it,
\* where that literal is of the field's type.
HoldsLastLiteral(field, held) ==
    LET value ==
            SingleAssignments[Greatest(MatchingAssignments(field))].Values[1]
    IN  /\ (field.Type.Kind = "string" /\ value.kind = "StringLiteral")
               => held = value.Value
        /\ (field.Type.Kind = "int" /\ value.kind = "NumberLiteral"
               /\ value.IsInt)
               => held = value.IntValue

\* C25: Unmarshal into a pointer to a struct has returned nil; each field
\* matched by a top-level assignment of one target and one value, through
\* its 'lua' tag or, untagged, its lowercased name, holds the value
\* assigned; every field that no such assignment matches holds the value it
\* had before the call.  Into a destination that is no pointer, Unmarshal
\* has returned an error and changed nothing.
C25_UnmarshalSetsMatchingFields ==
    (Unmarshalled /\ original = Null)
        => IF decoded.ptr
           THEN /\ err = Null
                /\ \A f \in 1..Len(decoded.type.Fields) :
                       IF MatchingAssignments(decoded.type.Fields[f]) = {}
                       THEN decoded.after[f] = decoded.before[f]
                       ELSE HoldsLastLiteral(decoded.type.Fields[f],
                                             decoded.after[f])
           ELSE /\ err # Null
                /\ decoded.after = decoded.before

\* The source is one assignment of a table of one or more positional
\* integer literals to the name that the slice field of SliceConfig is
\* tagged with.
IsPositionalTableAssignment ==
    /\ Len(program) = 1
    /\ program[1].kind = "AssignmentStatement"
    /\ Len(program[1].Names) = 1
    /\ Len(program[1].Values) = 1
    /\ program[1].Names[1].Name = SliceConfig.Fields[1].Tag
    /\ program[1].Values[1].kind = "TableLiteral"
    /\ Len(program[1].Values[1].Fields) >= 1
    /\ \A i \in 1..Len(program[1].Values[1].Fields) :
           LET field == program[1].Values[1].Fields[i]
           IN  /\ field.Key = Null
               /\ field.Value.kind = "NumberLiteral"
               /\ field.Value.IsInt

\* C26: when Unmarshal has read 'items = {e1, ..., en}', a table of n
\* positional integer literals, into a pointer to a struct whose field
\* tagged 'items' is a slice of int, it has returned nil and the field is a
\* slice of length n that holds e1, ..., en in source order.
C26_SliceFromPositionalTable ==
    (Unmarshalled /\ original = Null /\ decoded.ptr
       /\ decoded.type = SliceConfig /\ IsPositionalTableAssignment)
        => LET fields == program[1].Values[1].Fields
           IN  /\ err = Null
               /\ decoded.after[1] # Null
               /\ decoded.after[1].items
                      = [i \in 1..Len(fields) |-> fields[i].Value.IntValue]

\* The value position of the first top-level assignment of one target and
\* one value to the name, or 0.
FirstAssignmentTo(name) ==
    FirstIndex(SingleAssignments, LAMBDA stmt : stmt.Names[1].Name = name)

\* The last assignment that matches the field gives it an identifier whose
\* first assignment holds an integer literal.
ResolvesToLiteral(field) ==
    /\ MatchingAssignments(field) # {}
    /\ LET value == SingleAssignments[
                        Greatest(MatchingAssignments(field))].Values[1]
       IN  /\ value.kind = "Identifier"
           /\ FirstAssignmentTo(value.Name) # 0
           /\ LET first == SingleAssignments[
                               FirstAssignmentTo(value.Name)].Values[1]
              IN  first.kind = "NumberLiteral" /\ first.IsInt

ResolvedLiteral(field) ==
    LET value == SingleAssignments[
                     Greatest(MatchingAssignments(field))].Values[1]
    IN  SingleAssignments[FirstAssignmentTo(value.Name)].Values[1].IntValue

\* C30: Decode returns for every parsed program and every destination: it
\* never runs out of stack while it resolves an identifier, not even when an
\* assignment's value is its own target (x = x) or assignments refer to one
\* another in a cycle (a = b, b = a); and an int field that is assigned an
\* identifier holds the integer literal of the first top-level assignment of
\* one target and one value to that identifier.
C30_DecodeTerminates ==
    /\ codecState # "stack overflow"
    /\ (Unmarshalled /\ original = Null /\ decoded.ptr)
           => \A f \in 1..Len(decoded.type.Fields) :
                  (/\ decoded.type.Fields[f].Type.Kind = "int"
                   /\ ResolvesToLiteral(decoded.type.Fields[f]))
                      => decoded.after[f]
                             = ResolvedLiteral(decoded.type.Fields[f])

====
